---- MODULE Spec2Model ----
(***************************************************************************)
(* Entry Management Server: the token codec, the authentication gate and   *)
(* the owner-scoped entry store with its request handlers.                 *)
(*                                                                         *)
(* Three specifications share the variables:                               *)
(*   Spec      the EntryController handlers as concurrent requests over    *)
(*             the entries collection (one step per store access);         *)
(*   SpecAuth  the identity collection, JWTUtils and the gate;             *)
(*   SpecList  getEntries over every small store, one query at a time and  *)
(*             page after page.                                            *)
(***************************************************************************)
EXTENDS Integers, Sequences, FiniteSets, TLC

VARIABLES
  entries,   \* the entries collection: a set of documents
  nextId,    \* the next _id the store hands out
  now,       \* the clock (new Date())
  reqs,      \* the requests suspended at an await, one record per slot
  sent,      \* the response sent last, with the request it answers
  users,     \* the users collection: a set of documents
  issued,    \* the token pairs generateTokens has returned
  gate,      \* the outcome of the last request through a gate or auth handler
  paging     \* a client reading a listing page after page

vars == <<entries, nextId, now, reqs, sent, users, issued, gate, paging>>

(***************************************************************************)
(* Bounds of the model.                                                    *)
(***************************************************************************)
NumReq == 2        \* requests in flight at once
MaxEntries == 2    \* documents ever inserted into entries

Req == 1..NumReq
Users == {"u1", "u2"}
SrNos == {"1", "2"}

\* undefined, for the string-valued fields of a request body or query
Absent == "undefined"
\* a body without date: `date ? new Date(date) : ...` takes the falsy branch
NoDate == 0
\* an id that is not a well-formed ObjectId
BadId == 0

IsObjectId(id) == id >= 1

(***************************************************************************)
(* Entry schema (models/Entry.ts).                                         *)
(***************************************************************************)
\* vehicleNo: { uppercase: true }: the setter String.prototype.toUpperCase
ToUpperCase(s) ==
  CASE s = "mh01" -> "MH01"
    [] s = "ka02" -> "KA02"
    [] OTHER -> s

\* entrySchema.index({ srNo: 1, userId: 1 }, { unique: true }): the write of
\* document d is refused (E11000) when another document holds its key
ViolatesUniqueIndex_NoIndex(store, d) == FALSE

ViolatesUniqueIndex(store, d) ==
  \E e \in store : e.id # d.id /\ e.srNo = d.srNo /\ e.userId = d.userId

(***************************************************************************)
(* ResponseUtils (utils/response.ts).                                      *)
(***************************************************************************)
NoData == {}

success(message, data, statusCode) ==
  [status |-> statusCode, success |-> TRUE, message |-> message, data |-> data]

error(message, statusCode) ==
  [status |-> statusCode, success |-> FALSE, message |-> message, data |-> NoData]

validationError == error("Validation failed", 400)
unauthorized(message) == error(message, 401)
forbidden(message) == error(message, 403)
notFound(message) == error(message, 404)
conflict(message) == error(message, 409)

(***************************************************************************)
(* Validator chains (middleware/validation.ts).  A chain only records its  *)
(* errors on the request; the handler decides by calling validationResult. *)
(***************************************************************************)
\* validateCreateEntry: srNo, vehicleNo and nameDetails notEmpty after trim
validateCreateEntry(body) ==
  /\ body.srNo # Absent /\ body.srNo # ""
  /\ body.vehicleNo # Absent /\ body.vehicleNo # ""
  /\ body.nameDetails # Absent /\ body.nameDetails # ""

\* validateUpdateEntry: every field optional; when given, length >= 1
validateUpdateEntry(body) ==
  /\ body.srNo # ""
  /\ body.vehicleNo # ""
  /\ body.nameDetails # ""

(***************************************************************************)
(* Request bodies and request slots.                                       *)
(***************************************************************************)
\* the bodies of Spec: srNo varies, the other fields are fixed; userId is a
\* field a client may send along
Bodies ==
  [srNo : SrNos \cup {Absent, ""},
   vehicleNo : {"mh01"},
   nameDetails : {"T"},
   date : {NoDate},
   gatePassNo : {Absent},
   remarks : {Absent},
   userId : Users]

\* const { srNo, vehicleNo, nameDetails, date, ..., remarks } = req.body
Destructure(body) ==
  [srNo |-> body.srNo, vehicleNo |-> body.vehicleNo,
   nameDetails |-> body.nameDetails, date |-> body.date,
   gatePassNo |-> body.gatePassNo, remarks |-> body.remarks]

Idle == [pc |-> "idle"]

\* which kind of id the request named, judged when the request arrives
idClassOf(store, U, id) ==
  IF ~IsObjectId(id) THEN "malformed"
  ELSE IF \E e \in store : e.id = id /\ e.userId = U THEN "own"
  ELSE IF \E e \in store : e.id = id THEN "foreign"
  ELSE "missing"

\* the response resp, with the request (op, U, id) it answers; valid tells
\* whether validationResult(req) was empty
Responded(op, U, id, idClass, valid, resp) ==
  [op |-> op, user |-> U, idClass |-> idClass, valid |-> valid, resp |-> resp]

\* a request suspended at an await, about to run the step pc
Awaiting(pc, op, U, id, idClass, body, doc) ==
  [pc |-> pc, op |-> op, user |-> U, id |-> id, idClass |-> idClass,
   body |-> body, doc |-> doc]

\* a new request takes the first free slot (the slots are interchangeable)
FreeSlot(r) ==
  /\ reqs[r].pc = "idle"
  /\ \A x \in Req : x < r => reqs[x].pc # "idle"

(***************************************************************************)
(* Store queries of the handlers.                                          *)
(***************************************************************************)
\* Entry.findOne({ srNo }): the pre-check without the owner
FindBySrNo_AnyOwner(store, srNo, U) ==
  {e \in store : e.srNo = srNo}

\* Entry.findOne({ srNo, userId: req.user.id })
FindBySrNo(store, srNo, U) ==
  {e \in store : e.srNo = srNo /\ e.userId = U}

\* Entry.findOne({ _id: id, userId: req.user.id })
FindOwned_NoOwner(store, id, U) ==
  {e \in store : e.id = id}

FindOwned(store, id, U) ==
  {e \in store : e.id = id /\ e.userId = U}

\* Entry.findOne({ srNo, userId: req.user.id, _id: { $ne: id } })
FindConflict(store, srNo, U, id) ==
  {e \in store : e.srNo = srNo /\ e.userId = U /\ e.id # id}

(***************************************************************************)
(* EntryController.createEntry                                             *)
(***************************************************************************)
\* new Entry({ ..., userId: req.user.id }): the document before it is saved;
\* the owner is the authenticated user, whatever the body carries
NewEntry_BodyOwner(U, body) ==
  [srNo |-> body.srNo, vehicleNo |-> ToUpperCase(body.vehicleNo),
   nameDetails |-> body.nameDetails,
   date |-> IF body.date # NoDate THEN body.date ELSE now,
   gatePassNo |-> body.gatePassNo, remarks |-> body.remarks,
   userId |-> body.userId]

NewEntry(U, body) ==
  [srNo |-> body.srNo, vehicleNo |-> ToUpperCase(body.vehicleNo),
   nameDetails |-> body.nameDetails,
   date |-> IF body.date # NoDate THEN body.date ELSE now,
   gatePassNo |-> body.gatePassNo, remarks |-> body.remarks,
   userId |-> U]

\* the document as entry.save() writes it: _id and the timestamps added
Saved(doc) ==
  [id |-> nextId, srNo |-> doc.srNo, userId |-> doc.userId,
   vehicleNo |-> doc.vehicleNo, nameDetails |-> doc.nameDetails,
   date |-> doc.date, gatePassNo |-> doc.gatePassNo, remarks |-> doc.remarks,
   createdAt |-> now, updatedAt |-> now]

\* the handler of slot r sends its response and ends
Reply(r, op, U, id, idClass, valid, resp) ==
  /\ reqs' = [reqs EXCEPT ![r] = Idle]
  /\ sent' = Responded(op, U, id, idClass, valid, resp)

\* the handler of slot r suspends at its next await
Suspend(r, q) ==
  /\ reqs' = [reqs EXCEPT ![r] = q]
  /\ UNCHANGED sent

\* inserts still to come from requests suspended before entry.save()
PendingSaves == Cardinality({r \in Req : reqs[r].pc = "c_save"})

\* lines 14-38: validation, the pre-check findOne, the new document
CreateEntry_Begin(r, U, body) ==
  /\ FreeSlot(r)
  /\ IF ~validateCreateEntry(body)
       THEN Reply(r, "create", U, BadId, "none", FALSE, validationError)
     ELSE IF FindBySrNo(entries, body.srNo, U) # {}
       THEN Reply(r, "create", U, BadId, "none", TRUE,
                  conflict("Serial number ${srNo} already exists"))
     ELSE /\ nextId + PendingSaves <= MaxEntries
          /\ Suspend(r, Awaiting("c_save", "create", U, BadId, "none",
                                 Destructure(body), NewEntry(U, body)))
  /\ UNCHANGED <<entries, nextId, now, users, issued, gate, paging>>

\* lines 40-45: entry.save(); a refused write throws into the catch block
CreateEntry_Save(r) ==
  /\ reqs[r].pc = "c_save"
  /\ LET q == reqs[r]
         d == Saved(q.doc)
     IN IF ViolatesUniqueIndex(entries, d)
          THEN /\ Reply(r, "create", q.user, BadId, "none", TRUE,
                        error("Failed to create entry", 500))
               /\ UNCHANGED <<entries, nextId>>
          ELSE /\ entries' = entries \cup {d}
               /\ nextId' = nextId + 1
               /\ Reply(r, "create", q.user, BadId, "none", TRUE,
                        success("Entry created successfully", {d}, 201))
  /\ UNCHANGED <<now, users, issued, gate, paging>>

(***************************************************************************)
(* EntryController.updateEntry                                             *)
(***************************************************************************)
\* the update document written as the body gives it, no setter applied
ApplyUpdate_Raw(e, body, readDate) ==
  [id |-> e.id, userId |-> e.userId, createdAt |-> e.createdAt,
   srNo |-> IF body.srNo # Absent THEN body.srNo ELSE e.srNo,
   vehicleNo |-> IF body.vehicleNo # Absent THEN body.vehicleNo ELSE e.vehicleNo,
   nameDetails |-> IF body.nameDetails # Absent THEN body.nameDetails
                   ELSE e.nameDetails,
   gatePassNo |-> IF body.gatePassNo # Absent THEN body.gatePassNo
                  ELSE e.gatePassNo,
   remarks |-> IF body.remarks # Absent THEN body.remarks ELSE e.remarks,
   date |-> IF body.date # NoDate THEN body.date ELSE readDate,
   updatedAt |-> now]

\* the update document of findByIdAndUpdate applied to the stored document e:
\* a field the body leaves undefined is not written, date falls back to the
\* date of the document read at line 231, updatedAt is always written
ApplyUpdate(e, body, readDate) ==
  [id |-> e.id, userId |-> e.userId, createdAt |-> e.createdAt,
   srNo |-> IF body.srNo # Absent THEN body.srNo ELSE e.srNo,
   vehicleNo |-> IF body.vehicleNo # Absent THEN ToUpperCase(body.vehicleNo)
                 ELSE e.vehicleNo,
   nameDetails |-> IF body.nameDetails # Absent THEN body.nameDetails
                   ELSE e.nameDetails,
   gatePassNo |-> IF body.gatePassNo # Absent THEN body.gatePassNo
                  ELSE e.gatePassNo,
   remarks |-> IF body.remarks # Absent THEN body.remarks ELSE e.remarks,
   date |-> IF body.date # NoDate THEN body.date ELSE readDate,
   updatedAt |-> now]

\* lines 216-244, up to the first await: validation and the ownership findOne
UpdateEntry_Begin(r, U, id, body) ==
  /\ FreeSlot(r)
  /\ LET cls == idClassOf(entries, U, id)
     IN IF ~validateUpdateEntry(body)
          THEN Reply(r, "update", U, id, cls, FALSE, validationError)
        ELSE IF ~IsObjectId(id)
          THEN Reply(r, "update", U, id, cls, TRUE, error("Failed to update entry", 500))
        ELSE IF FindOwned(entries, id, U) = {}
          THEN Reply(r, "update", U, id, cls, TRUE,
                     notFound("Entry not found or unauthorized"))
        ELSE LET entry == CHOOSE e \in FindOwned(entries, id, U) : TRUE
             IN Suspend(r, Awaiting(IF body.srNo # entry.srNo THEN "u_check"
                                    ELSE "u_write",
                                    "update", U, id, cls, Destructure(body), entry))
  /\ UNCHANGED <<entries, nextId, now, users, issued, gate, paging>>

\* lines 238-244: the serial number differs from the stored one
UpdateEntry_Check(r) ==
  /\ reqs[r].pc = "u_check"
  /\ LET q == reqs[r]
     IN IF FindConflict(entries, q.body.srNo, q.user, q.id) # {}
          THEN Reply(r, "update", q.user, q.id, q.idClass, TRUE,
                     conflict("Serial number ${srNo} already exists"))
        ELSE Suspend(r, [q EXCEPT !.pc = "u_write"])
  /\ UNCHANGED <<entries, nextId, now, users, issued, gate, paging>>

\* lines 247-262: Entry.findByIdAndUpdate(id, {...}, { new: true })
UpdateEntry_Write(r) ==
  /\ reqs[r].pc = "u_write"
  /\ LET q == reqs[r]
         target == {e \in entries : e.id = q.id}
     IN IF target = {}
          THEN /\ Reply(r, "update", q.user, q.id, q.idClass, TRUE,
                        success("Entry updated successfully", NoData, 200))
               /\ UNCHANGED entries
          ELSE LET e == CHOOSE x \in target : TRUE
                   d == ApplyUpdate(e, q.body, q.doc.date)
               IN IF ViolatesUniqueIndex(entries, d)
                    THEN /\ Reply(r, "update", q.user, q.id, q.idClass, TRUE,
                                  error("Failed to update entry", 500))
                         /\ UNCHANGED entries
                    ELSE /\ entries' = (entries \ {e}) \cup {d}
                         /\ Reply(r, "update", q.user, q.id, q.idClass, TRUE,
                                  success("Entry updated successfully", {d}, 200))
  /\ UNCHANGED <<nextId, now, users, issued, gate, paging>>

(***************************************************************************)
(* EntryController.deleteEntry and getEntryById                            *)
(***************************************************************************)
\* lines 270-282: the ownership findOne
DeleteEntry_Begin(r, U, id) ==
  /\ FreeSlot(r)
  /\ LET cls == idClassOf(entries, U, id)
     IN IF ~IsObjectId(id)
          THEN Reply(r, "delete", U, id, cls, TRUE, error("Failed to delete entry", 500))
        ELSE IF FindOwned(entries, id, U) = {}
          THEN Reply(r, "delete", U, id, cls, TRUE,
                     notFound("Entry not found or unauthorized"))
        ELSE Suspend(r, Awaiting("d_write", "delete", U, id, cls, Absent, Absent))
  /\ UNCHANGED <<entries, nextId, now, users, issued, gate, paging>>

\* lines 285-287: Entry.findByIdAndDelete(id); the response data is { id }
DeleteEntry_Write(r) ==
  /\ reqs[r].pc = "d_write"
  /\ LET q == reqs[r]
     IN /\ entries' = {e \in entries : e.id # q.id}
        /\ Reply(r, "delete", q.user, q.id, q.idClass, TRUE,
                 success("Entry deleted successfully", NoData, 200))
  /\ UNCHANGED <<nextId, now, users, issued, gate, paging>>

\* lines 297-318
GetEntryById(r, U, id) ==
  /\ FreeSlot(r)
  /\ LET cls == idClassOf(entries, U, id)
     IN IF ~IsObjectId(id)
          THEN Reply(r, "getById", U, id, cls, TRUE, error("Failed to get entry", 500))
        ELSE IF FindOwned(entries, id, U) = {}
          THEN Reply(r, "getById", U, id, cls, TRUE,
                     notFound("Entry not found or unauthorized"))
        ELSE Reply(r, "getById", U, id, cls, TRUE,
                   success("Entry retrieved successfully",
                           FindOwned(entries, id, U), 200))
  /\ UNCHANGED <<entries, nextId, now, users, issued, gate, paging>>

(***************************************************************************)
(* JavaScript values the listing computes with.                            *)
(***************************************************************************)
\* a number, NaN or Infinity (JSON.stringify writes the last two as null)
Num(n) == [kind |-> "number", val |-> n]
NaN == [kind |-> "NaN", val |-> 0]
Infinity == [kind |-> "Infinity", val |-> 0]

\* a query parameter is a string, held as its sequence of characters;
\* Undef is the parameter the URL does not carry
Undef == <<Absent>>

DigitValue(c) ==
  CASE c = "0" -> 0 [] c = "1" -> 1 [] c = "2" -> 2 [] c = "3" -> 3
    [] c = "4" -> 4 [] c = "5" -> 5 [] c = "6" -> 6 [] c = "7" -> 7
    [] c = "8" -> 8 [] c = "9" -> 9 [] OTHER -> -1

IsDigit(c) == DigitValue(c) >= 0

\* the value of the longest prefix of digits of str, read from position i
\* with acc the value read so far
RECURSIVE DigitsValue(_, _, _)
DigitsValue(str, i, acc) ==
  IF i > Len(str) \/ ~IsDigit(str[i]) THEN acc
  ELSE DigitsValue(str, i + 1, 10 * acc + DigitValue(str[i]))

\* parseInt(str, 10): an optional sign, then the longest prefix of digits;
\* NaN when there is no digit
parseInt(str) ==
  LET signed == Len(str) >= 1 /\ str[1] \in {"-", "+"}
      first == IF signed THEN 2 ELSE 1
  IN IF first > Len(str) \/ ~IsDigit(str[first]) THEN NaN
     ELSE IF signed /\ str[1] = "-" THEN Num(0 - DigitsValue(str, first, 0))
     ELSE Num(DigitsValue(str, first, 0))

\* (pageNum - 1) * limitNum
SkipOf(pageNum, limitNum) ==
  IF pageNum.kind # "number" \/ limitNum.kind # "number" THEN NaN
  ELSE Num((pageNum.val - 1) * limitNum.val)

\* Math.ceil(total / limitNum), total a count
CeilDiv(total, limitNum) ==
  IF limitNum.kind # "number" THEN NaN
  ELSE IF limitNum.val = 0 THEN (IF total = 0 THEN NaN ELSE Infinity)
  ELSE IF limitNum.val > 0
    THEN Num((total + limitNum.val - 1) \div limitNum.val)
  ELSE Num(0 - (total \div (0 - limitNum.val)))

(***************************************************************************)
(* validatePagination (middleware/validation.ts): what validationResult    *)
(* would report for the query.                                             *)
(***************************************************************************)
\* validator.js isInt: /^[-+]?(0|[1-9][0-9]*)$/
isInt(str) ==
  LET signed == Len(str) >= 1 /\ str[1] \in {"-", "+"}
      first == IF signed THEN 2 ELSE 1
  IN /\ first <= Len(str)
     /\ \A i \in first..Len(str) : IsDigit(str[i])
     /\ (str[first] = "0" => Len(str) = first)

isIntMin(str, min) == isInt(str) /\ parseInt(str).val >= min
isIntMinMax(str, min, max) ==
  isInt(str) /\ parseInt(str).val >= min /\ parseInt(str).val <= max

MinPage == 1
MinLimit == 1
MaxLimit == 100
SortFields == {"srNo", "vehicleNo", "nameDetails", "date", "createdAt"}
SortOrders == {"asc", "desc"}

validatePagination(q) ==
  /\ q.page = Undef \/ isIntMin(q.page, MinPage)
  /\ q.limit = Undef \/ isIntMinMax(q.limit, MinLimit, MaxLimit)
  /\ q.sortBy = Absent \/ q.sortBy \in SortFields
  /\ q.sortOrder = Absent \/ q.sortOrder \in SortOrders

(***************************************************************************)
(* The filter and the sort of a listing.                                   *)
(***************************************************************************)
\* the characters of the strings the model stores or searches for
Chars(s) ==
  CASE s = "1" -> <<"1">>
    [] s = "2" -> <<"2">>
    [] s = "MH01" -> <<"M", "H", "0", "1">>
    [] s = "KA02" -> <<"K", "A", "0", "2">>
    [] s = "T" -> <<"T">>
    [] s = "mh" -> <<"m", "h">>
    [] s = "." -> <<".">>
    [] s = "t.." -> <<"t", ".", ".">>
    [] s = "GP1" -> <<"G", "P", "1">>
    [] s = "ok" -> <<"o", "k">>
    [] s = "Al" -> <<"A", "l">>
    [] s = " A" -> <<" ", "A">>
    [] s = "9876543210" -> <<"9", "8", "7", "6", "5", "4", "3", "2", "1", "0">>
    [] s = "123" -> <<"1", "2", "3">>
    [] s = "Access token expired" ->
         <<"A", "c", "c", "e", "s", "s", " ", "t", "o", "k", "e", "n", " ", "e", "x", "p", "i", "r", "e", "d">>
    [] s = "Invalid access token" ->
         <<"I", "n", "v", "a", "l", "i", "d", " ", "a", "c", "c", "e", "s", "s", " ", "t", "o", "k", "e", "n">>
    [] s = "Token verification failed" ->
         <<"T", "o", "k", "e", "n", " ", "v", "e", "r", "i", "f", "i", "c", "a", "t", "i", "o", "n", " ", "f", "a", "i", "l", "e", "d">>
    [] s = "Refresh token expired" ->
         <<"R", "e", "f", "r", "e", "s", "h", " ", "t", "o", "k", "e", "n", " ", "e", "x", "p", "i", "r", "e", "d">>
    [] s = "Invalid refresh token" ->
         <<"I", "n", "v", "a", "l", "i", "d", " ", "r", "e", "f", "r", "e", "s", "h", " ", "t", "o", "k", "e", "n">>
    [] s = "Refresh token verification failed" ->
         <<"R", "e", "f", "r", "e", "s", "h", " ", "t", "o", "k", "e", "n", " ", "v", "e", "r", "i", "f", "i", "c", "a", "t", "i", "o", "n", " ", "f", "a", "i", "l", "e", "d">>
    [] s = "expired" ->
         <<"e", "x", "p", "i", "r", "e", "d">>
    [] s = "invalid" ->
         <<"i", "n", "v", "a", "l", "i", "d">>
    [] s = "secret1" ->
         <<"s", "e", "c", "r", "e", "t", "1">>
    [] s = "short" ->
         <<"s", "h", "o", "r", "t">>
    [] OTHER -> <<>>

\* $options: 'i'
LowerChar(c) ==
  CASE c = "M" -> "m" [] c = "H" -> "h" [] c = "K" -> "k" [] c = "A" -> "a"
    [] c = "T" -> "t" [] c = "G" -> "g" [] c = "P" -> "p" [] OTHER -> c

\* { $regex: search, $options: 'i' } on a field value: the pattern is a
\* regular expression (here: characters and the wildcard "."), matched
\* anywhere in the value; a document without the field does not match
RegexMatches(search, value) ==
  /\ value # Absent
  /\ LET pat == Chars(search)
         txt == Chars(value)
     IN \E start \in 0..(Len(txt) - Len(pat)) :
          \A i \in 1..Len(pat) :
            pat[i] = "." \/ LowerChar(pat[i]) = LowerChar(txt[start + i])

\* lines 64-80: the query object
Matches(e, U, q) ==
  /\ e.userId = U
  /\ (q.startDate # NoDate => e.date >= q.startDate)
  /\ (q.endDate # NoDate => e.date <= q.endDate)
  /\ (q.search # Absent =>
        \/ RegexMatches(q.search, e.srNo)
        \/ RegexMatches(q.search, e.vehicleNo)
        \/ RegexMatches(q.search, e.nameDetails)
        \/ RegexMatches(q.search, e.gatePassNo)
        \/ RegexMatches(q.search, e.remarks))

Matching(store, U, q) == {e \in store : Matches(e, U, q)}

\* the place of a string among the strings of the model, in string order
StrRank(s) ==
  CASE s = "1" -> 1 [] s = "2" -> 2 [] s = "KA02" -> 3 [] s = "MH01" -> 4
    [] s = "T" -> 5 [] s = "u1" -> 6 [] s = "u2" -> 7 [] OTHER -> 0

\* the value the store compares for sort field f (a document without the
\* field sorts as null)
SortKey(e, f) ==
  IF f \in {"date", "createdAt", "updatedAt"} THEN e[f]
  ELSE IF f \in DOMAIN e THEN StrRank(e[f])
  ELSE 0

\* the sequences holding each document of S once
Orders(S) ==
  {ord \in [1..Cardinality(S) -> S] :
     \A i \in 1..Cardinality(S), j \in 1..Cardinality(S) :
       ord[i] = ord[j] => i = j}

\* .sort({ [f]: dir }): every order of S by that key; the store does not
\* say how documents with equal keys are ordered, nor that two queries order
\* them alike
SortedOrders(S, f, dir) ==
  {ord \in Orders(S) :
     \A i \in 1..Len(ord), j \in 1..Len(ord) :
       i < j => dir * SortKey(ord[i], f) <= dir * SortKey(ord[j], f)}

\* .skip(skip).limit(limit) of a cursor; limit 0 is no limit
SkipLimit(ord, skip, limit) ==
  LET last == IF limit = 0 \/ skip + limit > Len(ord) THEN Len(ord)
              ELSE skip + limit
  IN SubSeq(ord, skip + 1, last)

(***************************************************************************)
(* EntryController.getEntries                                              *)
(***************************************************************************)
\* line 58: the defaults of the destructuring
WithDefaults(q) ==
  [page |-> IF q.page = Undef THEN <<"1">> ELSE q.page,
   limit |-> IF q.limit = Undef THEN <<"1", "0">> ELSE q.limit,
   sortBy |-> IF q.sortBy = Absent THEN "createdAt" ELSE q.sortBy,
   sortOrder |-> IF q.sortOrder = Absent THEN "desc" ELSE q.sortOrder,
   search |-> q.search, startDate |-> q.startDate, endDate |-> q.endDate]

\* line 83
SortDir(sortOrder) == IF sortOrder = "desc" THEN -1 ELSE 1

\* ResponseUtils.paginated
paginated(data, pagination) ==
  [status |-> 200, success |-> TRUE, message |-> "Data retrieved successfully",
   data |-> data, pagination |-> pagination]


\* lines 58-96 for the query q of user U; found is what Entry.find(query)
\* .sort(sort) yields before skip and limit, total what countDocuments
\* answers.  A skip or limit the store rejects (NaN, negative) throws.
GetEntriesResponse(U, q, found, total) ==
  LET d == WithDefaults(q)
      pageNum == parseInt(d.page)
      limitNum == parseInt(d.limit)
      skip == SkipOf(pageNum, limitNum)
  IN IF skip.kind # "number" \/ skip.val < 0 \/ limitNum.val < 0
       THEN error("Failed to get entries", 500)
     ELSE paginated(SkipLimit(found, skip.val, limitNum.val),
                    [page |-> pageNum, limit |-> limitNum, total |-> Num(total),
                     pages |-> CeilDiv(total, limitNum)])

\* the listing answered: validatePagination has run (nothing reads its
\* result), the two reads see the same store
GetEntriesSends(U, q) ==
  LET d == WithDefaults(q)
      S == Matching(entries, U, d)
  IN \E found \in SortedOrders(S, d.sortBy, SortDir(d.sortOrder)) :
       /\ reqs' = reqs
       /\ sent' = [op |-> "list", user |-> U, idClass |-> "none",
                   valid |-> validatePagination(q), query |-> q,
                   resp |-> GetEntriesResponse(U, q, found, Cardinality(S))]

GetEntries(r, U, q) ==
  /\ FreeSlot(r)
  /\ GetEntriesSends(U, q)
  /\ UNCHANGED <<entries, nextId, now, users, issued, gate, paging>>

(***************************************************************************)
(* EntryController.exportEntries and exportAllEntries                      *)
(***************************************************************************)
\* a cursor without the sort
ExportOrders_Unsorted(S) == Orders(S)

\* .sort({ date: -1, createdAt: -1 })
ExportOrders(S) ==
  {ord \in Orders(S) :
     \A i \in 1..Len(ord), j \in 1..Len(ord) :
       i < j => \/ ord[i].date > ord[j].date
                \/ /\ ord[i].date = ord[j].date
                   /\ ord[i].createdAt >= ord[j].createdAt}

\* entry.field || ''
OrEmpty(v) == IF v = Absent THEN "" ELSE v

\* lines 125-140: the rows of the sheet
ExportData(found) ==
  [i \in 1..Len(found) |->
     [SNo |-> i, srNo |-> found[i].srNo, vehicleNo |-> found[i].vehicleNo,
      nameDetails |-> found[i].nameDetails, date |-> found[i].date,
      gatePassNo |-> OrEmpty(found[i].gatePassNo),
      remarks |-> OrEmpty(found[i].remarks),
      createdAt |-> found[i].createdAt]]

\* res.send(buffer) with the attachment headers
attachment(rows) ==
  [status |-> 200, success |-> TRUE, message |-> "attachment", data |-> rows]

ExportResponse(found) ==
  IF Len(found) = 0 THEN notFound("No entries found for export")
  ELSE attachment(ExportData(found))

\* the date bounds of an export, as a listing query without search
ExportQuery(startDate, endDate) ==
  [search |-> Absent, startDate |-> startDate, endDate |-> endDate]

\* lines 102-157
ExportEntries(r, U, startDate, endDate) ==
  /\ FreeSlot(r)
  /\ \E found \in ExportOrders(Matching(entries, U, ExportQuery(startDate, endDate))) :
       /\ reqs' = reqs
       /\ sent' = [op |-> "export", user |-> U, idClass |-> "none", valid |-> TRUE,
                   query |-> ExportQuery(startDate, endDate),
                   found |-> found, resp |-> ExportResponse(found)]
  /\ UNCHANGED <<entries, nextId, now, users, issued, gate, paging>>

\* lines 162-209
ExportAllEntries(r, U) ==
  /\ FreeSlot(r)
  /\ \E found \in ExportOrders({e \in entries : e.userId = U}) :
       /\ reqs' = reqs
       /\ sent' = [op |-> "exportAll", user |-> U, idClass |-> "none", valid |-> TRUE,
                   found |-> found, resp |-> ExportResponse(found)]
  /\ UNCHANGED <<entries, nextId, now, users, issued, gate, paging>>

(***************************************************************************)
(* Spec: the entry handlers as concurrent requests.                        *)
(***************************************************************************)
\* the ids a request may name: the malformed one and every id the store
\* hands out (an id names no entry before its insert and after its delete)
RequestIds == {BadId} \cup (1..MaxEntries)

NoResponse == [op |-> "none"]

\* the listing queries of Spec: the first two pages of one entry each, or
\* the defaults, by creation time
Queries ==
  [page : {Undef, <<"2">>}, limit : {Undef, <<"1">>}, sortBy : {Absent},
   sortOrder : {Absent}, search : {Absent}, startDate : {NoDate},
   endDate : {NoDate}]

Init ==
  /\ entries = {}
  /\ nextId = 1
  /\ now = 0
  /\ reqs = [r \in Req |-> Idle]
  /\ sent = NoResponse
  /\ users = {}
  /\ issued = {}
  /\ gate = Idle
  /\ paging = Idle

Next ==
  \/ \E r \in Req, U \in Users, body \in Bodies : CreateEntry_Begin(r, U, body)
  \/ \E r \in Req : CreateEntry_Save(r)
  \/ \E r \in Req, U \in Users, id \in RequestIds, body \in Bodies :
       UpdateEntry_Begin(r, U, id, body)
  \/ \E r \in Req : UpdateEntry_Check(r)
  \/ \E r \in Req : UpdateEntry_Write(r)
  \/ \E r \in Req, U \in Users, id \in RequestIds : DeleteEntry_Begin(r, U, id)
  \/ \E r \in Req : DeleteEntry_Write(r)
  \/ \E r \in Req, U \in Users, id \in RequestIds : GetEntryById(r, U, id)
  \/ \E r \in Req, U \in Users, q \in Queries : GetEntries(r, U, q)
  \/ \E r \in Req, U \in Users : ExportEntries(r, U, NoDate, NoDate)
  \/ \E r \in Req, U \in Users : ExportAllEntries(r, U)

Spec == Init /\ [][Next]_vars

(***************************************************************************)
(* Properties of the entry store.                                          *)
(***************************************************************************)
\* C2: in every reachable state no two stored entries have the same
\* (srNo, userId) pair; entries of different owners may share a srNo.
C2_OwnerScopedUnique ==
  \A a \in entries, b \in entries :
    (a.srNo = b.srNo /\ a.userId = b.userId) => a = b

\* two owners hold the same serial number at once, and a createEntry of one
\* of them for that serial number has just been refused
C2_Witness ==
  /\ \E a \in entries, b \in entries : a.srNo = b.srNo /\ a.userId # b.userId
  /\ sent.op = "create"
  /\ sent.resp.status = 409

\* C3: a createEntry whose save the unique index refuses (it passed the
\* pre-check, another request saved the same key first) answers 409, as a
\* request refused by the pre-check does.
C3_DuplicateKeyIsConflict ==
  [][\A r \in Req :
       (/\ reqs[r].pc = "c_save"
        /\ reqs'[r].pc = "idle"
        /\ \E e \in entries : e.srNo = reqs[r].doc.srNo /\ e.userId = reqs[r].doc.userId)
       => sent'.resp.status = 409]_vars

\* C4: getEntryById, updateEntry and deleteEntry answer an id of another
\* owner's entry exactly as they answer an id that names no entry (404 with
\* the one message, or 400 when the update body is invalid either way), such
\* a request never gets past its ownership lookup, and the store is unchanged.
C4_NoExistenceLeak ==
  [][/\ (/\ reqs' = reqs
         /\ sent'.op \in {"getById", "update", "delete"}
         /\ sent'.idClass \in {"foreign", "missing"})
        => /\ sent'.resp = IF sent'.valid
                             THEN notFound("Entry not found or unauthorized")
                             ELSE validationError
           /\ entries' = entries
     /\ \A r \in Req :
          reqs'[r].pc # "idle" => reqs'[r].idClass \notin {"foreign", "missing"}]_vars

\* a request for another owner's entry has been answered 404
C4_Witness ==
  /\ sent.op \in {"getById", "update", "delete"}
  /\ sent.idClass = "foreign"
  /\ sent.resp.status = 404
  /\ entries # {}

\* C5: a step of a request of user U adds, changes and removes only entries
\* whose userId is U, never changes the userId of a stored entry, and the
\* entries a response carries (one entry, a listing, the rows of an export)
\* all have userId U.
C5_Writes ==
  \A e \in (entries' \ entries) \cup (entries \ entries') :
    \E r \in Req : reqs[r].pc # "idle" /\ reqs'[r].pc = "idle" /\ reqs[r].user = e.userId

C5_OwnerKept ==
  \A a \in entries, b \in entries' : a.id = b.id => a.userId = b.userId

C5_Reads ==
  /\ sent'.op \in {"getById", "create", "update"} =>
       \A e \in sent'.resp.data : e.userId = sent'.user
  /\ (sent'.op = "list" /\ sent'.resp.status = 200) =>
       \A i \in 1..Len(sent'.resp.data) : sent'.resp.data[i].userId = sent'.user
  /\ sent'.op \in {"export", "exportAll"} =>
       /\ \A i \in 1..Len(sent'.found) : sent'.found[i].userId = sent'.user
       /\ sent'.resp.status = 200 => Len(sent'.resp.data) = Len(sent'.found)

C5_TenantIsolation == [][C5_Writes /\ C5_OwnerKept /\ C5_Reads]_vars

\* both users own an entry, a client-supplied userId named the other user,
\* and a listing of one of them has just been answered with an entry
C5_Witness ==
  /\ \E a \in entries, b \in entries : a.userId # b.userId
  /\ sent.op = "list"
  /\ sent.resp.status = 200
  /\ Len(sent.resp.data) >= 1

(***************************************************************************)
(* SpecList: getEntries over every small store.  The store is drawn once   *)
(* and stays as it is; either one listing is requested, or a client reads  *)
(* a listing page after page.                                              *)
(***************************************************************************)
MaxListEntries == 2   \* documents in a store of SpecList

ListDates == {1, 2}
ListTimes == {0, 1}

\* the documents the store can hold under _id i
ListDocs(i) ==
  [id : {i}, srNo : SrNos, userId : Users, vehicleNo : {"MH01"},
   nameDetails : {"T"}, date : ListDates, gatePassNo : {Absent},
   remarks : {Absent}, createdAt : ListTimes, updatedAt : {1}]

\* the stores of k documents the handlers can have built: _ids 1..k, handed
\* out in the order of creation, no (srNo, userId) pair twice
RECURSIVE StoresOf(_)
StoresOf(k) ==
  IF k = 0 THEN {{}}
  ELSE UNION {{S \cup {d} :
                 d \in {x \in ListDocs(k) :
                          \A e \in S : /\ e.createdAt <= x.createdAt
                                       /\ ~(e.srNo = x.srNo /\ e.userId = x.userId)}} :
              S \in StoresOf(k - 1)}

ListStores == UNION {StoresOf(k) : k \in 0..MaxListEntries}

\* the queries of SpecList, valid and not
ListQueries ==
  [page : {Undef, <<"2">>, <<"0">>},
   limit : {Undef, <<"1">>, <<"0">>, <<"1", "0", "1">>},
   sortBy : {Absent, "date", "userId"},
   sortOrder : {Absent, "up"},
   search : {Absent, "2", "."},
   startDate : {NoDate, 2},
   endDate : {NoDate, 1}]

\* the listings a client pages through
PagingQueries ==
  [page : {Undef},
   limit : {<<"1">>, <<"2">>},
   sortBy : {Absent, "date"},
   sortOrder : {Absent, "asc"},
   search : {Absent}, startDate : {NoDate}, endDate : {NoDate}]

\* String(k) for a page number
PageString(k) ==
  CASE k = 1 -> <<"1">> [] k = 2 -> <<"2">> [] k = 3 -> <<"3">>
    [] k = 4 -> <<"4">> [] k = 5 -> <<"5">> [] OTHER -> <<"9">>

InitList ==
  /\ entries \in ListStores
  /\ nextId = Cardinality(entries) + 1
  /\ now = 1
  /\ reqs = [r \in Req |-> Idle]
  /\ sent = NoResponse
  /\ users = {}
  /\ issued = {}
  /\ gate = Idle
  /\ paging = Idle

\* one GET /entries
ListOnce(U, q) ==
  /\ sent = NoResponse
  /\ paging = Idle
  /\ GetEntries(1, U, q)

\* a client starts reading the listing q from page 1
PagingStart(U, q) ==
  /\ sent = NoResponse
  /\ paging = Idle
  /\ paging' = [pc |-> "paging", user |-> U, query |-> q, got |-> <<>>, pages |-> 1]
  /\ UNCHANGED <<entries, nextId, now, reqs, sent, users, issued, gate>>

\* the client requests the next page, up to pagination.pages
PagingFetch ==
  /\ paging.pc = "paging"
  /\ Len(paging.got) < paging.pages
  /\ GetEntriesSends(paging.user,
                     [paging.query EXCEPT !.page = PageString(Len(paging.got) + 1)])
  /\ paging' = [paging EXCEPT !.got = Append(@, sent'.resp.data),
                              !.pages = sent'.resp.pagination.pages.val]
  /\ UNCHANGED <<entries, nextId, now, users, issued, gate>>

NextList ==
  \/ \E U \in Users, q \in ListQueries : ListOnce(U, q)
  \/ \E U \in Users, q \in PagingQueries : PagingStart(U, q)
  \/ PagingFetch

SpecList == InitList /\ [][NextList]_vars

(***************************************************************************)
(* Properties of the listing.                                              *)
(***************************************************************************)
\* the numbers getEntries computes for the query q
PageNum(q) == parseInt(WithDefaults(q).page)
LimitNum(q) == parseInt(WithDefaults(q).limit)

\* C8: a listing that reached the store used a page >= 1, a page size in
\* 1..100 and a sort field of the allow-list; a request with page, limit,
\* sortBy or sortOrder outside these is answered 400.
C8_ListParameterBounds ==
  sent.op = "list" =>
    /\ ~sent.valid => sent.resp.status = 400
    /\ sent.resp.status # 400 =>
         /\ PageNum(sent.query).kind = "number"
         /\ PageNum(sent.query).val >= MinPage
         /\ LimitNum(sent.query).kind = "number"
         /\ LimitNum(sent.query).val >= MinLimit
         /\ LimitNum(sent.query).val <= MaxLimit
         /\ WithDefaults(sent.query).sortBy \in SortFields

\* C9: in every getEntries response total is the number of the owner's
\* entries matching the filter, page and limit are the requested values (or
\* 1 and 10), and pages is ceil(total / limit), a finite integer >= 0.
C9_PaginationMetadata ==
  (sent.op = "list" /\ sent.resp.status = 200) =>
    LET pg == sent.resp.pagination
        n == Cardinality(Matching(entries, sent.user, sent.query))
    IN /\ pg.total = Num(n)
       /\ pg.page = PageNum(sent.query)
       /\ pg.limit = LimitNum(sent.query)
       /\ pg.pages.kind = "number"
       /\ pg.pages.val >= 0
       /\ pg.pages.val * pg.limit.val >= n
       /\ (pg.pages.val - 1) * pg.limit.val < n \/ n = 0

\* the pages read so far, one after the other
RECURSIVE Concat(_)
Concat(pages) ==
  IF pages = <<>> THEN <<>> ELSE Head(pages) \o Concat(Tail(pages))

\* C10: with the store unchanged, pages 1 .. ceil(N/L) of a listing, one
\* after the other, are the whole filtered result in the requested order:
\* every matching entry once, none twice, also when sort keys tie.
C10_PaginationLaw ==
  (paging.pc = "paging" /\ Len(paging.got) >= 1 /\ Len(paging.got) = paging.pages) =>
    LET d == WithDefaults(paging.query)
    IN Concat(paging.got) \in
         SortedOrders(Matching(entries, paging.user, d), d.sortBy, SortDir(d.sortOrder))

(***************************************************************************)
(* Tokens: jsonwebtoken's sign and verify as JWTUtils calls them.  A token *)
(* is the payload it carries and the secret that signed it; time is        *)
(* counted in days.                                                        *)
(***************************************************************************)
JWT_SECRET == "jwt-key"
JWT_REFRESH_SECRET_Same == JWT_SECRET
JWT_REFRESH_SECRET == "refresh-key"
AccessLifetime == 7
RefreshLifetime == 30
Issuer == "entry-management-server"
Audience == "entry-management-app"

\* jwt.sign(payload, secret, { expiresIn }): iat and exp are added, no other
\* registered claim is
Sign(payload, secret, expiresIn, t) ==
  [shape |-> "jwt", secret |-> secret, id |-> payload.id,
   email |-> payload.email, role |-> payload.role,
   iat |-> t, exp |-> t + expiresIn, iss |-> Absent, aud |-> Absent]

\* jwt.verify(token, secret, { issuer, audience }) at time t: the error it
\* throws, in the order verify makes its checks
JwtVerify(token, secret, t) ==
  IF token.shape # "jwt" THEN [name |-> "JsonWebTokenError", why |-> "shape"]
  ELSE IF token.secret # secret
    THEN [name |-> "JsonWebTokenError", why |-> "signature"]
  ELSE IF t >= token.exp THEN [name |-> "TokenExpiredError", why |-> "expired"]
  ELSE IF token.aud # Audience
    THEN [name |-> "JsonWebTokenError", why |-> "audience"]
  ELSE IF token.iss # Issuer
    THEN [name |-> "JsonWebTokenError", why |-> "issuer"]
  ELSE [name |-> "none", why |-> "none"]

Decoded(token) == [id |-> token.id, email |-> token.email, role |-> token.role]
Returns(decoded) == [ok |-> TRUE, decoded |-> decoded]
Throws(message) == [ok |-> FALSE, message |-> message]

generateTokens(payload, t) ==
  [accessToken |-> Sign(payload, JWT_SECRET, AccessLifetime, t),
   refreshToken |-> Sign(payload, JWT_REFRESH_SECRET, RefreshLifetime, t)]

verifyAccessToken(token, t) ==
  LET err == JwtVerify(token, JWT_SECRET, t)
  IN IF err.name = "none" THEN Returns(Decoded(token))
     ELSE IF err.name = "TokenExpiredError" THEN Throws("Access token expired")
     ELSE Throws("Invalid access token")

verifyRefreshToken(token, t) ==
  LET err == JwtVerify(token, JWT_REFRESH_SECRET, t)
  IN IF err.name = "none" THEN Returns(Decoded(token))
     ELSE IF err.name = "TokenExpiredError" THEN Throws("Refresh token expired")
     ELSE Throws("Invalid refresh token")

\* the Authorization header: a sequence of words, spaces and tokens; absent
\* and empty are the same to the test !authHeader
NoHeader == <<>>
NoToken == [shape |-> "none"]
EmptyString == [shape |-> "empty"]
Garbage == [shape |-> "garbage"]
Space == [shape |-> "space"]
Word(text) == [shape |-> "word", text |-> text]

\* the test !token: null and "" are falsy
Falsy(token) == token \in {NoToken, EmptyString}

\* authHeader.split(' '): the pieces between the spaces, empty ones included
RECURSIVE split(_)
split(header) ==
  IF \A i \in 1..Len(header) : header[i] # Space THEN <<header>>
  ELSE LET k == CHOOSE i \in 1..Len(header) :
                  header[i] = Space /\ \A j \in 1..(i - 1) : header[j] # Space
       IN <<SubSeq(header, 1, k - 1)>> \o split(SubSeq(header, k + 1, Len(header)))

\* a piece as the string it is: empty, one word or token, or their run
Piece(part) ==
  IF part = <<>> THEN EmptyString
  ELSE IF Len(part) = 1 THEN part[1]
  ELSE Garbage

\* the same, taking the scheme in either letter case
extractTokenFromHeader_AnyCase(authHeader) ==
  IF authHeader = NoHeader THEN NoToken
  ELSE LET parts == split(authHeader)
       IN IF Len(parts) # 2 \/ parts[1] \notin {<<Word("Bearer")>>, <<Word("bearer")>>}
            THEN NoToken
          ELSE Piece(parts[2])

extractTokenFromHeader(authHeader) ==
  IF authHeader = NoHeader THEN NoToken
  ELSE LET parts == split(authHeader)
       IN IF Len(parts) # 2 \/ parts[1] # <<Word("Bearer")>> THEN NoToken
          ELSE Piece(parts[2])

\* String.prototype.includes: the needle, character for character
Includes(message, needle) ==
  LET txt == Chars(message)
      pat == Chars(needle)
  IN \E start \in 0..(Len(txt) - Len(pat)) :
       \A i \in 1..Len(pat) : pat[i] = txt[start + i]

(***************************************************************************)
(* The identity store.                                                     *)
(***************************************************************************)
Emails == {"a@x.io", "b@x.io"}
normalizeEmail(email) ==
  CASE email = "A@x.io" -> "a@x.io" [] OTHER -> email
isEmail(email) == normalizeEmail(email) \in Emails

\* .trim(): the characters without leading and trailing spaces
RECURSIVE trimStart(_)
trimStart(chars) ==
  IF chars # <<>> /\ Head(chars) = " " THEN trimStart(Tail(chars)) ELSE chars

RECURSIVE trimEnd(_)
trimEnd(chars) ==
  IF chars # <<>> /\ chars[Len(chars)] = " "
    THEN trimEnd(SubSeq(chars, 1, Len(chars) - 1))
  ELSE chars

trim_Keep(chars) == chars

trim(chars) == trimEnd(trimStart(chars))

\* .optional().matches(/^\d{10}$/)
MobileDigits == 10
optionalMobileNo(mobileNo) ==
  mobileNo = Absent \/
    /\ Len(Chars(mobileNo)) = MobileDigits
    /\ \A i \in 1..MobileDigits : IsDigit(Chars(mobileNo)[i])

\* .trim().isLength({ min: 2, max: 50 })
MinName == 2
MaxName == 50
MinPassword == 6
nameLength(name) ==
  /\ Len(trim(Chars(name))) >= MinName
  /\ Len(trim(Chars(name))) <= MaxName

validateRegister(body) ==
  /\ nameLength(body.name)
  /\ isEmail(body.email)
  /\ Len(Chars(body.password)) >= MinPassword
  /\ optionalMobileNo(body.mobileNo)

validateUpdateProfile(body) ==
  /\ (body.name # Absent => nameLength(body.name))
  /\ optionalMobileNo(body.mobileNo)

validateLogin(body) ==
  /\ isEmail(body.email)
  /\ body.password # ""

\* new User({ name, email, password, mobileNo }) with the schema's defaults
NewUser(body) ==
  [id |-> Cardinality(users) + 1, name |-> body.name,
   email |-> normalizeEmail(body.email), password |-> body.password,
   mobileNo |-> body.mobileNo, role |-> "user", isActive |-> TRUE]

UserByEmail(email) == {u \in users : u.email = email}
ActiveById(id) == {u \in users : u.id = id /\ u.isActive}
EmailTaken(store, u) == \E v \in store : v.email = u.email
TokenPayload(user) == [id |-> user.id, email |-> user.email, role |-> user.role]

\* the part of a user document the responses serialise
Profile(user) ==
  [id |-> user.id, name |-> user.name, email |-> user.email,
   mobileNo |-> user.mobileNo, role |-> user.role, isActive |-> user.isActive]

(***************************************************************************)
(* AuthController and the authenticate middleware                          *)
(***************************************************************************)
MaxIssued == 2
MaxNow == 30
\* the instants at which a token issued at time 0 expires
Instants == {AccessLifetime, RefreshLifetime}

NoTokens == {}
\* sent and gate hold the outcome of the latest request only
AuthReply(r, op, valid, resp, tokens) ==
  /\ reqs' = [reqs EXCEPT ![r] = Idle]
  /\ sent' = [op |-> op, valid |-> valid, resp |-> resp, tokens |-> tokens]
  /\ gate' = Idle

RegisterBodies ==
  [name : {"Al"}, mobileNo : {Absent},
   email : {"a@x.io", "A@x.io", "b@x.io", "nomail"}, password : {"secret1"}]
    \cup [name : {"Al"}, mobileNo : {Absent},
           email : {"a@x.io"}, password : {"short"}]

\* lines 174-195: validation, the findOne by email, the new document
Register_Begin(r, body) ==
  /\ FreeSlot(r)
  /\ IF ~validateRegister(body)
       THEN AuthReply(r, "register", FALSE, validationError, NoTokens)
     ELSE IF UserByEmail(normalizeEmail(body.email)) # {}
       THEN AuthReply(r, "register", TRUE,
                      conflict("User with this email already exists"), NoTokens)
     ELSE /\ Cardinality(issued) + Cardinality({q \in Req : reqs[q].pc = "r_save"})
               < MaxIssued
          /\ Suspend(r, [pc |-> "r_save", body |-> body])
          /\ UNCHANGED gate
  /\ UNCHANGED <<entries, nextId, now, users, issued, paging>>

\* lines 197-222: user.save(), the tokens, the response; a save the unique
\* email index refuses throws into the catch block
Register_Save(r) ==
  /\ reqs[r].pc = "r_save"
  /\ LET user == NewUser(reqs[r].body)
         tokens == generateTokens(TokenPayload(user), now)
     IN IF EmailTaken(users, user)
          THEN /\ AuthReply(r, "register", TRUE,
                            error("Failed to register user", 500), NoTokens)
               /\ UNCHANGED <<users, issued>>
          ELSE /\ users' = users \cup {user}
               /\ issued' = issued \cup {tokens}
               /\ AuthReply(r, "register", TRUE,
                            success("User registered successfully",
                                    {Profile(user)}, 201), {tokens})
  /\ UNCHANGED <<entries, nextId, now, paging>>

\* user.comparePassword(password): whether the candidate is the password the
\* stored hash was made from
comparePassword(user, candidate) == user.password = candidate

\* User.findOne({ email, isActive: true })
ActiveByEmail_AnyState(email) == UserByEmail(email)

ActiveByEmail(email) == {u \in UserByEmail(email) : u.isActive}

\* the response of login, with the body it answers
LoginReply(r, body, valid, resp, tokens) ==
  /\ reqs' = [reqs EXCEPT ![r] = Idle]
  /\ sent' = [op |-> "login", valid |-> valid, resp |-> resp, tokens |-> tokens,
              given |-> body]
  /\ gate' = Idle

\* lines 228-277
Login(r, body) ==
  /\ FreeSlot(r)
  /\ LET found == ActiveByEmail(normalizeEmail(body.email))
     IN IF ~validateLogin(body)
          THEN /\ LoginReply(r, body, FALSE, validationError, NoTokens)
               /\ UNCHANGED issued
        ELSE IF found = {} \/ \A u \in found : ~comparePassword(u, body.password)
          THEN /\ LoginReply(r, body, TRUE,
                             unauthorized("Invalid email or password"), NoTokens)
               /\ UNCHANGED issued
        ELSE \E user \in found :
               LET tokens == generateTokens(TokenPayload(user), now)
               IN /\ Cardinality(issued \cup {tokens}) <= MaxIssued
                  /\ issued' = issued \cup {tokens}
                  /\ LoginReply(r, body, TRUE,
                                success("Login successful", {Profile(user)}, 200),
                                {tokens})
  /\ UNCHANGED <<entries, nextId, now, users, paging>>

\* lines 282-323; the response names the token it was given
RefreshToken(r, refreshToken) ==
  /\ FreeSlot(r)
  /\ LET v == verifyRefreshToken(refreshToken, now)
         resp ==
           IF Falsy(refreshToken) THEN validationError
           ELSE IF ~v.ok
             THEN IF Includes(v.message, "expired")
                    THEN unauthorized("Refresh token expired")
                  ELSE IF Includes(v.message, "invalid")
                    THEN unauthorized("Invalid refresh token")
                  ELSE unauthorized("Token refresh failed")
           ELSE IF ActiveById(v.decoded.id) = {}
             THEN unauthorized("User not found or inactive")
           ELSE success("Tokens refreshed successfully", NoData, 200)
         tokens ==
           IF resp.status = 200
             THEN {generateTokens(TokenPayload(u), now) : u \in ActiveById(v.decoded.id)}
           ELSE NoTokens
     IN /\ Cardinality(issued \cup tokens) <= MaxIssued
        /\ issued' = issued \cup tokens
        /\ reqs' = [reqs EXCEPT ![r] = Idle]
        /\ sent' = [op |-> "refresh", valid |-> ~Falsy(refreshToken),
                    resp |-> resp, tokens |-> tokens, given |-> refreshToken]
        /\ gate' = Idle
  /\ UNCHANGED <<entries, nextId, now, users, paging>>

\* what a middleware did: how often it called next(), the responses it
\* sent, in order, and req.user when it returned
Did(calls, sends, user) == [calls |-> calls, sends |-> sends, user |-> user]

\* how User.findOne ends: it answers, or it rejects with an Error of some
\* message, or with a value that is no Error
Answers == [kind |-> "answers"]
Lookups ==
  {Answers, [kind |-> "other"]}
    \cup {[kind |-> "Error", message |-> msg] : msg \in {"expired", "invalid", "short"}}

NoUser == [id |-> BadId]

\* auth.ts lines 10-55 without the return of line 31
authenticate_FallThrough(authHeader, t, lookup) ==
  LET token == extractTokenFromHeader(authHeader)
      v == verifyAccessToken(token, t)
      caught(message) ==
        IF Includes(message, "expired")
          THEN Did(0, <<unauthorized("Access token expired")>>, NoUser)
        ELSE IF Includes(message, "invalid")
          THEN Did(0, <<unauthorized("Invalid access token")>>, NoUser)
        ELSE Did(0, <<unauthorized("Authentication failed")>>, NoUser)
  IN IF Falsy(token)
       THEN Did(0, <<unauthorized("Access token is required")>>, NoUser)
     ELSE IF ~v.ok THEN caught(v.message)
     ELSE IF lookup.kind = "Error" THEN caught(lookup.message)
     ELSE IF lookup.kind = "other"
       THEN Did(0, <<error("Authentication error", 500)>>, NoUser)
     ELSE IF ActiveById(v.decoded.id) = {}
       THEN Did(1, <<unauthorized("User not found or inactive")>>, v.decoded)
     ELSE Did(1, <<>>, v.decoded)

\* auth.ts lines 10-55: the gate in front of every protected route; it either
\* calls next() with req.user set or sends the response itself
authenticate(authHeader, t, lookup) ==
  LET token == extractTokenFromHeader(authHeader)
      v == verifyAccessToken(token, t)
      caught(message) ==
        IF Includes(message, "expired")
          THEN Did(0, <<unauthorized("Access token expired")>>, NoUser)
        ELSE IF Includes(message, "invalid")
          THEN Did(0, <<unauthorized("Invalid access token")>>, NoUser)
        ELSE Did(0, <<unauthorized("Authentication failed")>>, NoUser)
  IN IF Falsy(token)
       THEN Did(0, <<unauthorized("Access token is required")>>, NoUser)
     ELSE IF ~v.ok THEN caught(v.message)
     ELSE IF lookup.kind = "Error" THEN caught(lookup.message)
     ELSE IF lookup.kind = "other"
       THEN Did(0, <<error("Authentication error", 500)>>, NoUser)
     ELSE IF ActiveById(v.decoded.id) = {}
       THEN Did(0, <<unauthorized("User not found or inactive")>>, NoUser)
     ELSE Did(1, <<>>, v.decoded)

\* a request reaches the gate while the store answers
Authenticate(authHeader) ==
  /\ LET did == authenticate(authHeader, now, Answers)
     IN gate' = [pc |-> "done", header |-> authHeader,
                 token |-> extractTokenFromHeader(authHeader),
                 next |-> did.calls = 1,
                 resp |-> IF did.sends = <<>> THEN NoResponse ELSE did.sends[1],
                 user |-> did.user]
  /\ sent' = NoResponse
  /\ UNCHANGED <<entries, nextId, now, reqs, users, issued, paging>>

\* auth.ts lines 79-106, attaching what the token says without the test of
\* line 92
optionalAuth_Unchecked(authHeader, t, lookup) ==
  LET token == extractTokenFromHeader(authHeader)
      v == verifyAccessToken(token, t)
  IN IF Falsy(token) THEN Did(1, <<>>, NoUser)
     ELSE IF ~v.ok THEN Did(1, <<>>, NoUser)
     ELSE IF lookup.kind # "answers" THEN Did(1, <<>>, NoUser)
     ELSE Did(1, <<>>, v.decoded)

\* auth.ts lines 79-106: every failure is caught and followed by next()
optionalAuth(authHeader, t, lookup) ==
  LET token == extractTokenFromHeader(authHeader)
      v == verifyAccessToken(token, t)
  IN IF Falsy(token) THEN Did(1, <<>>, NoUser)
     ELSE IF ~v.ok THEN Did(1, <<>>, NoUser)
     ELSE IF lookup.kind # "answers" THEN Did(1, <<>>, NoUser)
     ELSE IF ActiveById(v.decoded.id) = {} THEN Did(1, <<>>, NoUser)
     ELSE Did(1, <<>>, v.decoded)

\* lines 406-415, called with req.user set
Logout_Deactivating(r) ==
  /\ FreeSlot(r)
  /\ AuthReply(r, "logout", TRUE, success("Logged out successfully", NoData, 200), NoTokens)
  /\ users' = {[u EXCEPT !.isActive = FALSE] : u \in users}
  /\ UNCHANGED <<entries, nextId, now, issued, paging>>

Logout(r) ==
  /\ FreeSlot(r)
  /\ AuthReply(r, "logout", TRUE, success("Logged out successfully", NoData, 200), NoTokens)
  /\ UNCHANGED <<entries, nextId, now, users, issued, paging>>

\* an administrator clears the active flag of an identity
Deactivate(id) ==
  /\ \E u \in users : u.id = id /\ u.isActive
  /\ users' = {IF u.id = id THEN [u EXCEPT !.isActive = FALSE] ELSE u : u \in users}
  /\ UNCHANGED <<entries, nextId, now, reqs, sent, issued, gate, paging>>

\* days pass
Tick ==
  /\ \E t \in Instants : now < t /\ t <= MaxNow /\ now' = t
  /\ UNCHANGED <<entries, nextId, reqs, sent, users, issued, gate, paging>>

\* what a client can present: a token it was issued, either one of a pair,
\* a string that is no token, or a token signed with a key of its own
Forged ==
  [shape |-> "jwt", secret |-> "own-key", id |-> 1, email |-> "a@x.io",
   role |-> "admin", iat |-> 0, exp |-> MaxNow + 1,
   iss |-> Issuer, aud |-> Audience]
AccessTokens == {p.accessToken : p \in issued}
RefreshTokens == {p.refreshToken : p \in issued}
Presentable == AccessTokens \cup RefreshTokens \cup {Garbage, Forged}
Headers ==
  {NoHeader} \cup {<<Word("Bearer"), Space, t>> : t \in Presentable}
             \cup {<<Word("Basic"), Space, t>> : t \in {Garbage}}

InitAuth ==
  /\ entries = {}
  /\ nextId = 1
  /\ now = 0
  /\ reqs = [r \in Req |-> Idle]
  /\ sent = NoResponse
  /\ users = {}
  /\ issued = {}
  /\ gate = Idle
  /\ paging = Idle

NextAuth ==
  \/ \E r \in Req, body \in RegisterBodies : Register_Begin(r, body)
  \/ \E r \in Req : Register_Save(r)
  \/ \E r \in Req, body \in RegisterBodies : Login(r, body)
  \/ \E r \in Req, t \in Presentable \cup {NoToken} : RefreshToken(r, t)
  \/ \E h \in Headers : Authenticate(h)
  \/ \E r \in Req : Logout(r)
  \/ \E id \in 1..Cardinality(Emails) : Deactivate(id)
  \/ Tick

SpecAuth == InitAuth /\ [][NextAuth]_vars

(***************************************************************************)
(* Properties of the tokens and of the gate.                               *)
(***************************************************************************)
\* C1: every token pair handed out by register, login or refresh verifies
\* before its expiry: verifyAccessToken of the access token and
\* verifyRefreshToken of the refresh token return the id, email and role of
\* the identity the pair was issued to.
C1_TokenRoundTrip ==
  \A p \in issued : \A u \in users :
    u.id = p.accessToken.id =>
      /\ now < p.accessToken.exp =>
           verifyAccessToken(p.accessToken, now) = Returns(TokenPayload(u))
      /\ now < p.refreshToken.exp =>
           verifyRefreshToken(p.refreshToken, now) = Returns(TokenPayload(u))

\* C6: authenticate answers 401 "Access token expired" exactly when the
\* token is expired, 401 "Invalid access token" when its signature or shape
\* is invalid, and 401 "Authentication failed" for any other verification
\* failure.
C6_GateStep ==
  (gate' # gate /\ gate'.pc = "done" /\ gate'.token # NoToken) =>
    LET err == JwtVerify(gate'.token, JWT_SECRET, now)
    IN /\ err.why = "expired" <=> gate'.resp = unauthorized("Access token expired")
       /\ err.why \in {"shape", "signature"} =>
            gate'.resp = unauthorized("Invalid access token")
       /\ err.why \in {"audience", "issuer"} =>
            gate'.resp = unauthorized("Authentication failed")

C6_FailureClassification == [][C6_GateStep]_vars

\* C7: a request through authenticate with an unexpired access token issued
\* to an identity that is now inactive is answered 401 "User not found or
\* inactive" and next() is not called; refreshToken with that identity's
\* unexpired refresh token is answered the same and issues no tokens.
C7_StaleAccess ==
  (/\ gate' # gate
   /\ gate'.pc = "done"
   /\ gate'.token \in AccessTokens
   /\ now < gate'.token.exp
   /\ ActiveById(gate'.token.id) = {}) =>
    /\ gate'.resp = unauthorized("User not found or inactive")
    /\ ~gate'.next

C7_StaleRefresh ==
  (/\ sent' # sent
   /\ sent'.op = "refresh"
   /\ sent'.given \in RefreshTokens
   /\ now < sent'.given.exp
   /\ ActiveById(sent'.given.id) = {}) =>
    /\ sent'.resp = unauthorized("User not found or inactive")
    /\ sent'.tokens = NoTokens
    /\ issued' = issued

C7_DeactivationDefeatsStaleTokens == [][C7_StaleAccess /\ C7_StaleRefresh]_vars

(***************************************************************************)
(* Properties of the filter, the routes and the exports.                   *)
(***************************************************************************)
\* the search text occurs in the value as it is written, letter case aside
LiteralSubstring(search, value) ==
  /\ value # Absent
  /\ LET pat == Chars(search)
         txt == Chars(value)
     IN \E start \in 0..(Len(txt) - Len(pat)) :
          \A i \in 1..Len(pat) : LowerChar(pat[i]) = LowerChar(txt[start + i])

LiteralMatching(store, U, q) ==
  {e \in store :
     /\ e.userId = U
     /\ (q.startDate # NoDate => e.date >= q.startDate)
     /\ (q.endDate # NoDate => e.date <= q.endDate)
     /\ (q.search # Absent =>
           \E f \in {"srNo", "vehicleNo", "nameDetails", "gatePassNo", "remarks"} :
             LiteralSubstring(q.search, e[f]))}

\* C11: the entries getEntries matches for user U are exactly U's entries
\* within the date bounds in which the search text occurs as a
\* case-insensitive literal substring of srNo, vehicleNo, nameDetails,
\* gatePassNo or remarks; total counts them and every item is one of them.
C11_ListFilterSemantics ==
  (sent.op = "list" /\ sent.resp.status = 200) =>
    LET M == LiteralMatching(entries, sent.user, sent.query)
    IN /\ sent.resp.pagination.total = Num(Cardinality(M))
       /\ \A i \in 1..Len(sent.resp.data) : sent.resp.data[i] \in M

(***************************************************************************)
(* The entry router: routes in the order entryRoutes.ts registers them.    *)
(* A path is the sequence of its segments below /entries.                  *)
(***************************************************************************)
Routes ==
  << [method |-> "POST", path |-> <<>>, handler |-> "createEntry"],
     [method |-> "GET", path |-> <<>>, handler |-> "getEntries"],
     [method |-> "GET", path |-> <<":id">>, handler |-> "getEntryById"],
     [method |-> "PUT", path |-> <<":id">>, handler |-> "updateEntry"],
     [method |-> "DELETE", path |-> <<":id">>, handler |-> "deleteEntry"],
     [method |-> "GET", path |-> <<"export">>, handler |-> "exportEntries"],
     [method |-> "GET", path |-> <<"export", "all">>, handler |-> "exportAllEntries"] >>

\* a route matches a path of as many segments; :id matches any segment
RouteMatches(route, method, path) ==
  /\ route.method = method
  /\ Len(route.path) = Len(path)
  /\ \A i \in 1..Len(path) : route.path[i] = ":id" \/ route.path[i] = path[i]

\* the first registered route that matches; every handler responds and none
\* calls next(), so no later route sees the request
Dispatch(method, path) ==
  LET hits == {i \in 1..Len(Routes) : RouteMatches(Routes[i], method, path)}
  IN IF hits = {} THEN "none"
     ELSE Routes[CHOOSE i \in hits : \A j \in hits : i <= j].handler

\* req.params.id as the store casts it: the _id it denotes, or no ObjectId
ParamId(segment) ==
  CASE segment = "1" -> 1 [] segment = "2" -> 2 [] OTHER -> BadId

\* a request without a query string
NoQuery ==
  [page |-> Undef, limit |-> Undef, sortBy |-> Absent, sortOrder |-> Absent,
   search |-> Absent, startDate |-> NoDate, endDate |-> NoDate]

RoutePaths == {<<>>, <<"1">>, <<"2">>, <<"export">>, <<"export", "all">>}
RouteMethods == {"GET", "DELETE"}

InitRoute ==
  /\ entries \in ListStores
  /\ nextId = MaxListEntries + 1
  /\ now = 1
  /\ reqs = [r \in Req |-> Idle]
  /\ sent = NoResponse
  /\ users = {}
  /\ issued = {}
  /\ gate = Idle
  /\ paging = Idle

\* router.use(authenticate) lets the request of user U through
RoutePass(U, method, path) ==
  /\ gate = Idle
  /\ gate' = [pc |-> "passed", user |-> U, method |-> method, path |-> path]
  /\ UNCHANGED <<entries, nextId, now, reqs, sent, users, issued, paging>>

\* the router hands the request to the handler of the first matching route;
\* a request no route matches falls through to the application's 404
RouteDispatch ==
  /\ gate.pc = "passed"
  /\ sent = NoResponse
  /\ LET U == gate.user
         h == Dispatch(gate.method, gate.path)
     IN CASE h = "getEntries" -> GetEntries(1, U, NoQuery)
          [] h = "getEntryById" -> GetEntryById(1, U, ParamId(gate.path[1]))
          [] h = "deleteEntry" -> DeleteEntry_Begin(1, U, ParamId(gate.path[1]))
          [] h = "exportEntries" -> ExportEntries(1, U, NoDate, NoDate)
          [] h = "exportAllEntries" -> ExportAllEntries(1, U)
          [] OTHER ->
               /\ FreeSlot(1)
               /\ reqs' = reqs
               /\ sent' = [op |-> "none matched", user |-> U, idClass |-> "none",
                           valid |-> TRUE, resp |-> notFound("Route not found")]
               /\ UNCHANGED <<entries, nextId, now, users, issued, gate, paging>>

NextRoute ==
  \/ \E U \in Users, method \in RouteMethods, path \in RoutePaths :
       RoutePass(U, method, path)
  \/ RouteDispatch
  \/ \E r \in Req : DeleteEntry_Write(r)

SpecRoute == InitRoute /\ [][NextRoute]_vars

\* C12: an authenticated GET /entries/export is answered by exportEntries
\* and GET /entries/export/all by exportAllEntries, never by getEntryById;
\* for an owner with an entry both answer with the spreadsheet attachment.
C12_ExportRouting ==
  (/\ gate.pc = "passed"
   /\ gate.method = "GET"
   /\ sent # NoResponse
   /\ \E e \in entries : e.userId = gate.user) =>
    /\ gate.path = <<"export">> =>
         /\ sent.op = "export"
         /\ sent.resp.status = 200
         /\ sent.resp.message = "attachment"
    /\ gate.path = <<"export", "all">> =>
         /\ sent.op = "exportAll"
         /\ sent.resp.status = 200
         /\ sent.resp.message = "attachment"

(***************************************************************************)
(* SpecExport: the two export handlers over every small store.             *)
(***************************************************************************)
ExportOnce(U, startDate, endDate) ==
  /\ sent = NoResponse
  /\ ExportEntries(1, U, startDate, endDate)

ExportAllOnce(U) ==
  /\ sent = NoResponse
  /\ ExportAllEntries(1, U)

NextExport ==
  \/ \E U \in Users, startDate \in {NoDate} \cup ListDates,
        endDate \in {NoDate} \cup ListDates : ExportOnce(U, startDate, endDate)
  \/ \E U \in Users : ExportAllOnce(U)

SpecExport == InitList /\ [][NextExport]_vars

\* the entries an export is about: the owner's, within the date bounds of
\* exportEntries
ExportScope ==
  {e \in entries :
     /\ e.userId = sent.user
     /\ sent.op = "export" =>
          /\ (sent.query.startDate # NoDate => e.date >= sent.query.startDate)
          /\ (sent.query.endDate # NoDate => e.date <= sent.query.endDate)}

\* C13: an export answers 404 "No entries found for export" when the owner
\* has no entry in scope; otherwise the sheet has one row per entry in scope,
\* by date descending then createdAt descending, S.No is the row's position
\* and a missing optional field is the empty string.
C13_ExportContents ==
  sent.op \in {"export", "exportAll"} =>
    IF ExportScope = {}
      THEN sent.resp = notFound("No entries found for export")
    ELSE LET rows == sent.resp.data
         IN /\ sent.resp.status = 200
            /\ Len(rows) = Cardinality(ExportScope)
            /\ \E at \in [1..Len(rows) -> ExportScope] :
                 /\ \A i \in 1..Len(rows), j \in 1..Len(rows) : at[i] = at[j] => i = j
                 /\ \A i \in 1..Len(rows) :
                      /\ rows[i].SNo = i
                      /\ rows[i].srNo = at[i].srNo
                      /\ rows[i].vehicleNo = at[i].vehicleNo
                      /\ rows[i].nameDetails = at[i].nameDetails
                      /\ rows[i].date = at[i].date
                      /\ rows[i].createdAt = at[i].createdAt
                      /\ rows[i].gatePassNo =
                           (IF at[i].gatePassNo = Absent THEN "" ELSE at[i].gatePassNo)
                      /\ rows[i].remarks =
                           (IF at[i].remarks = Absent THEN "" ELSE at[i].remarks)
                 /\ \A i \in 1..Len(rows), j \in 1..Len(rows) :
                      i < j => \/ at[i].date > at[j].date
                               \/ /\ at[i].date = at[j].date
                                  /\ at[i].createdAt >= at[j].createdAt

\* a date-bounded export that left out an entry of the owner and sent the
\* rest
C13_Witness ==
  /\ sent.op = "export"
  /\ sent.resp.status = 200
  /\ sent.query.startDate # NoDate
  /\ \E e \in entries : e.userId = sent.user /\ e.date < sent.query.startDate

(***************************************************************************)
(* SpecCreate: createEntry requests one after the other; gate holds the    *)
(* request the middleware let through until the client has its response.   *)
(***************************************************************************)
CreatePass(U, body) ==
  /\ gate = Idle
  /\ gate' = [pc |-> "passed", user |-> U, method |-> "POST", path |-> <<>>,
              body |-> body]
  /\ UNCHANGED <<entries, nextId, now, reqs, sent, users, issued, paging>>

CreateDispatch ==
  /\ gate.pc = "passed"
  /\ sent = NoResponse
  /\ CreateEntry_Begin(1, gate.user, gate.body)

\* the client has read the response; the next request may come
CreateDone ==
  /\ gate.pc = "passed"
  /\ sent # NoResponse
  /\ gate' = Idle
  /\ sent' = NoResponse
  /\ UNCHANGED <<entries, nextId, now, reqs, users, issued, paging>>

NextCreate ==
  \/ \E U \in Users, body \in Bodies : CreatePass(U, body)
  \/ CreateDispatch
  \/ \E r \in Req : CreateEntry_Save(r)
  \/ CreateDone

SpecCreate == Init /\ [][NextCreate]_vars

\* C14: a valid createEntry of srNo s by user U, with no other request in
\* flight, answers 201 and adds one entry (s, U) when U holds no entry with
\* s, whoever else holds s; it answers 409 and leaves the store as it is
\* when U already holds s.
C14_Response ==
  (/\ gate.pc = "passed"
   /\ validateCreateEntry(gate.body)
   /\ sent = NoResponse
   /\ sent' # NoResponse) =>
    IF \E e \in entries : e.srNo = gate.body.srNo /\ e.userId = gate.user
      THEN /\ sent'.resp.status = 409
           /\ sent'.resp.success = FALSE
           /\ entries' = entries
    ELSE /\ sent'.resp.status = 201
         /\ entries \subseteq entries'
         /\ \E e \in entries' \ entries :
              /\ entries' = entries \cup {e}
              /\ e.srNo = gate.body.srNo
              /\ e.userId = gate.user

C14_CreateConflict == [][C14_Response]_vars

\* U1 and U2 both hold s and a further create of s has just been refused
C14_Witness ==
  /\ gate.pc = "passed"
  /\ sent.op = "create"
  /\ sent.resp.status = 409
  /\ \E a \in entries, b \in entries :
       /\ a.srNo = gate.body.srNo
       /\ b.srNo = gate.body.srNo
       /\ a.userId = gate.user
       /\ b.userId # gate.user

(***************************************************************************)
(* Properties of the handlers' error paths.                                *)
(***************************************************************************)
\* C15: getEntryById, updateEntry and deleteEntry called with an id that is
\* no well-formed store identifier answer 400, a validation error, and leave
\* the store unchanged.
C15_MalformedIdStep ==
  (/\ sent' # sent
   /\ sent'.op \in {"getById", "update", "delete"}
   /\ sent'.idClass = "malformed") =>
    /\ sent'.resp.status = 400
    /\ entries' = entries

C15_MalformedIdIsValidationError == [][C15_MalformedIdStep]_vars

(***************************************************************************)
(* AuthController.updateProfile, called with req.user set                  *)
(***************************************************************************)
ProfileBodies == [name : {Absent, "Al", " A"}, mobileNo : {Absent, "9876543210", "123"}]

\* lines 362-380: validation, then User.findById(req.user.id)
UpdateProfile_Begin(r, id, body) ==
  /\ FreeSlot(r)
  /\ IF ~validateUpdateProfile(body)
       THEN AuthReply(r, "updateProfile", FALSE, validationError, NoTokens)
     ELSE IF \A u \in users : u.id # id
       THEN AuthReply(r, "updateProfile", TRUE, notFound("User not found"), NoTokens)
     ELSE /\ Suspend(r, [pc |-> "p_save", id |-> id, body |-> body,
                         doc |-> CHOOSE u \in users : u.id = id])
          /\ UNCHANGED gate
  /\ UNCHANGED <<entries, nextId, now, users, issued, paging>>

\* lines 383-396: the modified paths are written, the document in hand is
\* serialised
UpdateProfile_Save(r) ==
  /\ reqs[r].pc = "p_save"
  /\ LET q == reqs[r]
         name == IF q.body.name # Absent /\ q.body.name # "" THEN q.body.name
                 ELSE q.doc.name
         mobileNo == IF q.body.mobileNo # Absent THEN q.body.mobileNo
                     ELSE q.doc.mobileNo
     IN /\ users' = {IF u.id = q.id
                       THEN [u EXCEPT !.name = name, !.mobileNo = mobileNo]
                     ELSE u : u \in users}
        /\ AuthReply(r, "updateProfile", TRUE,
                     success("Profile updated successfully",
                             {Profile([q.doc EXCEPT !.name = name,
                                                    !.mobileNo = mobileNo])}, 200),
                     NoTokens)
  /\ UNCHANGED <<entries, nextId, now, issued, paging>>

(***************************************************************************)
(* SpecValidate: the four validated handlers, one request at a time; gate  *)
(* holds the request that has reached its handler.                         *)
(***************************************************************************)
ValidatedRegisterBodies ==
  [name : {"Al", " A"}, mobileNo : {Absent, "123"},
   email : {"a@x.io", "nomail"}, password : {"secret1", "short"}]

ValidatedRequests ==
  [pc : {"passed"}, handler : {"createEntry"}, user : Users, id : {BadId},
   body : Bodies]
    \cup [pc : {"passed"}, handler : {"updateEntry"}, user : Users,
          id : RequestIds, body : Bodies]
    \cup [pc : {"passed"}, handler : {"register"}, user : {Absent}, id : {BadId},
          body : ValidatedRegisterBodies]
    \cup [pc : {"passed"}, handler : {"updateProfile"}, user : {Absent},
          id : {1}, body : ProfileBodies]

\* the stores the requests meet: no entry or one, no identity or one
InitValidate ==
  /\ entries \in StoresOf(0) \cup StoresOf(1)
  /\ nextId = Cardinality(entries) + 1
  /\ now = 1
  /\ reqs = [r \in Req |-> Idle]
  /\ sent = NoResponse
  /\ users \in {{}, {[id |-> 1, name |-> "Al", email |-> "b@x.io",
                      password |-> "secret1", mobileNo |-> Absent,
                      role |-> "user", isActive |-> TRUE]}}
  /\ issued = {}
  /\ gate = Idle
  /\ paging = Idle

ValidatedPass(request) ==
  /\ gate = Idle
  /\ gate' = request
  /\ UNCHANGED <<entries, nextId, now, reqs, sent, users, issued, paging>>

ValidatedDispatch ==
  /\ gate.pc = "passed"
  /\ CASE gate.handler = "createEntry" ->
            CreateEntry_Begin(1, gate.user, gate.body)
       [] gate.handler = "updateEntry" ->
            UpdateEntry_Begin(1, gate.user, gate.id, gate.body)
       [] gate.handler = "register" -> Register_Begin(1, gate.body)
       [] gate.handler = "updateProfile" ->
            UpdateProfile_Begin(1, gate.id, gate.body)

NextValidate ==
  \/ \E request \in ValidatedRequests : ValidatedPass(request)
  \/ ValidatedDispatch
  \/ \E r \in Req : CreateEntry_Save(r)
  \/ \E r \in Req : UpdateEntry_Check(r)
  \/ \E r \in Req : UpdateEntry_Write(r)
  \/ \E r \in Req : Register_Save(r)
  \/ \E r \in Req : UpdateProfile_Save(r)

SpecValidate == InitValidate /\ [][NextValidate]_vars

\* the request in gate breaks a rule of its validator chain
C16_BreaksRule ==
  LET b == gate.body
  IN \/ /\ gate.handler = "createEntry"
        /\ b.srNo \in {Absent, ""}
     \/ /\ gate.handler = "updateEntry"
        /\ b.srNo = ""
     \/ /\ gate.handler = "register"
        /\ \/ b.name = " A"
           \/ b.email = "nomail"
           \/ b.password = "short"
           \/ b.mobileNo = "123"
     \/ /\ gate.handler = "updateProfile"
        /\ b.name = " A" \/ b.mobileNo = "123"

\* C16: a createEntry, updateEntry, register or updateProfile request that
\* breaks a rule of its validator chain is answered 400 "Validation failed";
\* its handler reads and writes nothing: no handler is left waiting on the
\* store, and entries, identities and issued tokens are as before.
C16_Step ==
  (gate.pc = "passed" /\ C16_BreaksRule) =>
    /\ sent' # NoResponse
    /\ sent'.resp.status = 400
    /\ sent'.resp.message = "Validation failed"
    /\ ~sent'.resp.success
    /\ \A r \in Req : reqs'[r].pc = "idle"
    /\ entries' = entries
    /\ users' = users
    /\ issued' = issued

C16_ValidationFailFast == [][C16_Step]_vars

\* a register request with a name too short once trimmed has been refused
\* while the store held an identity and an entry
C16_Witness ==
  /\ sent.op = "register"
  /\ sent.resp.status = 400
  /\ users # {}
  /\ entries # {}

(***************************************************************************)
(* Properties of login, refresh and logout.                                *)
(***************************************************************************)
\* the identities the credentials of the login body are those of
C17_Holders(body) ==
  {u \in users : /\ u.email = normalizeEmail(body.email)
                 /\ u.isActive
                 /\ u.password = body.password}

\* C17: a login with a well-formed body answers 401 "Invalid email or
\* password", the same response, for an unknown email, for the email of an
\* inactive identity and for a wrong password, and issues nothing; it answers
\* 200 with a token pair for the identity only when the email names an active
\* identity and the password matches; the identities are never changed.
C17_Step ==
  (sent'.op = "login" /\ (sent' # sent \/ gate' # gate)) =>
    /\ users' = users
    /\ entries' = entries
    /\ sent'.valid =>
         IF C17_Holders(sent'.given) = {}
           THEN /\ sent'.resp = unauthorized("Invalid email or password")
                /\ sent'.tokens = NoTokens
                /\ issued' = issued
         ELSE /\ sent'.resp.status = 200
              /\ \E u \in C17_Holders(sent'.given) :
                   /\ sent'.tokens = {generateTokens(TokenPayload(u), now)}
                   /\ sent'.resp.data = {Profile(u)}
              /\ issued' = issued \cup sent'.tokens
    /\ ~sent'.valid => (sent'.tokens = NoTokens /\ issued' = issued)

C17_LoginFailureUniform == [][C17_Step]_vars

\* a login with the right password of a deactivated identity was refused
C17_Witness ==
  /\ sent.op = "login"
  /\ sent.resp = unauthorized("Invalid email or password")
  /\ \E u \in users : /\ u.email = normalizeEmail(sent.given.email)
                      /\ u.password = sent.given.password
                      /\ ~u.isActive

\* C18: refreshToken with a refresh token that verifies and whose identity is
\* active answers 200 with a new pair carrying the identity's stored id, email
\* and role; without the refreshToken field it answers 400; with an expired
\* token 401 "Refresh token expired"; with a malformed or wrongly signed token
\* 401 "Invalid refresh token"; the store is never changed.
C18_Step ==
  (sent' # sent /\ sent'.op = "refresh") =>
    LET given == sent'.given
        err == JwtVerify(given, JWT_REFRESH_SECRET, now)
    IN /\ users' = users
       /\ entries' = entries
       /\ given = NoToken => sent'.resp.status = 400
       /\ given # NoToken =>
            /\ err.why = "expired" =>
                 sent'.resp = unauthorized("Refresh token expired")
            /\ err.why \in {"shape", "signature"} =>
                 sent'.resp = unauthorized("Invalid refresh token")
            /\ (err.why = "none" /\ ActiveById(given.id) # {}) =>
                 /\ sent'.resp.status = 200
                 /\ sent'.tokens =
                      {generateTokens(TokenPayload(u), now) : u \in ActiveById(given.id)}

C18_RefreshExchange == [][C18_Step]_vars

\* C19: a token issued as an access token is never accepted by
\* verifyRefreshToken, so refreshToken issues nothing for it, and a token
\* issued as a refresh token is never accepted by verifyAccessToken, so
\* authenticate does not call next() for it; with the configured secrets the
\* rejection is that of the signature.
C19_TokenKindSeparation ==
  /\ \A p \in issued :
       /\ ~verifyRefreshToken(p.accessToken, now).ok
       /\ JwtVerify(p.accessToken, JWT_REFRESH_SECRET, now).why = "signature"
       /\ ~verifyAccessToken(p.refreshToken, now).ok
       /\ JwtVerify(p.refreshToken, JWT_SECRET, now).why = "signature"
  /\ (sent.op = "refresh" /\ sent.given \in AccessTokens) =>
       (sent.resp.status = 401 /\ sent.tokens = NoTokens)
  /\ (gate.pc = "done" /\ gate.token \in RefreshTokens) =>
       (~gate.next /\ gate.resp.status = 401)

\* an unexpired access token was presented to refreshToken
C19_Witness ==
  /\ sent.op = "refresh"
  /\ sent.given \in AccessTokens
  /\ now < sent.given.exp
  /\ sent.resp.status = 401

\* C20: logout changes no server state, and what authenticate and
\* refreshToken decide about any token a client can present is the same after
\* the logout as before it: a token accepted before is accepted after.
C20_Step ==
  (sent'.op = "logout" /\ (sent' # sent \/ gate' # gate \/ reqs' # reqs)) =>
    /\ sent'.resp = success("Logged out successfully", NoData, 200)
    /\ <<entries, nextId, now, users, issued, paging>>' =
         <<entries, nextId, now, users, issued, paging>>
    /\ \A t \in Presentable :
         /\ verifyAccessToken(t, now') = verifyAccessToken(t, now)
         /\ verifyRefreshToken(t, now') = verifyRefreshToken(t, now)
         /\ t.shape = "jwt" =>
              {u \in users' : u.id = t.id /\ u.isActive} = ActiveById(t.id)

Roles == {"user", "admin"}

\* auth.ts lines 60-74 without the return of line 69
authorize_FallThrough(roles, user) ==
  IF user = NoUser
    THEN Did(0, <<unauthorized("Authentication required")>>, user)
  ELSE IF user.role \notin roles
    THEN Did(1, <<forbidden("Insufficient permissions")>>, user)
  ELSE Did(1, <<>>, user)

\* auth.ts lines 60-74
authorize(roles, user) ==
  IF user = NoUser
    THEN Did(0, <<unauthorized("Authentication required")>>, user)
  ELSE IF user.role \notin roles
    THEN Did(0, <<forbidden("Insufficient permissions")>>, user)
  ELSE Did(1, <<>>, user)

\* the identities of a store in which an administrator and a deactivated
\* identity exist, and the token pairs they were issued on day 0
GateUsers ==
  {[id |-> 1, name |-> "Al", email |-> "a@x.io", password |-> "secret1",
    mobileNo |-> Absent, role |-> "user", isActive |-> TRUE],
   [id |-> 2, name |-> "Al", email |-> "b@x.io", password |-> "secret1",
    mobileNo |-> Absent, role |-> "admin", isActive |-> TRUE]}
GateIssued == {generateTokens(TokenPayload(u), 0) : u \in GateUsers}

\* req.user as a preceding middleware can have left it
Attached == {NoUser} \cup {TokenPayload(u) : u \in GateUsers}

InitGate ==
  /\ entries = {}
  /\ nextId = 1
  /\ now = 0
  /\ reqs = [r \in Req |-> Idle]
  /\ sent = NoResponse
  /\ users = GateUsers
  /\ issued = GateIssued
  /\ gate = Idle
  /\ paging = Idle

\* a route guarded by authorize(...roles) is requested
Authorize(roles, user) ==
  /\ gate' = [pc |-> "authorize", roles |-> roles, given |-> user,
              did |-> authorize(roles, user)]
  /\ UNCHANGED <<entries, nextId, now, reqs, sent, users, issued, paging>>

\* a token signed with the server's access secret that carries the issuer
\* and the audience the verification asks for (no handler issues one)
Minted ==
  [shape |-> "jwt", secret |-> JWT_SECRET, id |-> 1, email |-> "a@x.io",
   role |-> "user", iat |-> 0, exp |-> AccessLifetime,
   iss |-> Issuer, aud |-> Audience]

\* the Authorization headers of the requests
GateTokens ==
  {p.accessToken : p \in GateIssued} \cup {p.refreshToken : p \in GateIssued}
    \cup {Garbage, Forged, Minted}
GateHeaders ==
  {NoHeader} \cup {<<Word("Bearer"), Space, t>> : t \in GateTokens}
    \cup {<<Word("Bearer"), Space>>,
          <<Word("Bearer")>>,
          <<Word("bearer"), Space, Minted>>,
          <<Word("Basic"), Space, Minted>>,
          <<Word("Bearer"), Space, Space, Minted>>,
          <<Space, Word("Bearer"), Space, Minted>>,
          <<Word("Bearer"), Space, Minted, Space>>,
          <<Minted>>}

\* a request to a route behind router.use(authenticate): the route's handler
\* runs once for each next() of the gate, with the req.user the gate left
GateAuthenticate(authHeader, lookup) ==
  /\ LET did == authenticate(authHeader, now, lookup)
     IN gate' = [pc |-> "authenticate", header |-> authHeader, lookup |-> lookup,
                 token |-> extractTokenFromHeader(authHeader), did |-> did,
                 handlerRuns |-> did.calls, reqUser |-> did.user]
  /\ UNCHANGED <<entries, nextId, now, reqs, sent, users, issued, paging>>

\* a request to a route behind optionalAuth
OptionalAuth(authHeader, lookup) ==
  /\ gate' = [pc |-> "optionalAuth", header |-> authHeader, lookup |-> lookup,
              token |-> extractTokenFromHeader(authHeader),
              did |-> optionalAuth(authHeader, now, lookup)]
  /\ UNCHANGED <<entries, nextId, now, reqs, sent, users, issued, paging>>

NextGate ==
  \/ \E roles \in SUBSET Roles, user \in Attached : Authorize(roles, user)
  \/ \E h \in GateHeaders, lookup \in Lookups : GateAuthenticate(h, lookup)
  \/ \E h \in GateHeaders, lookup \in Lookups : OptionalAuth(h, lookup)
  \/ \E id \in {u.id : u \in GateUsers} : Deactivate(id)
  \/ Tick

SpecGate == InitGate /\ [][NextGate]_vars

\* C21: authorize(roles) calls next() only when an identity is attached and
\* its role is among roles; with an attached identity of another role it
\* sends 403 "Insufficient permissions", with no identity 401; on every path
\* it does exactly one of the two, calling next() or sending one response.
C21_RoleGate ==
  gate.pc = "authorize" =>
    LET allowed == IF gate.given = NoUser THEN FALSE
                   ELSE gate.given.role \in gate.roles
    IN /\ gate.did.calls = 1 <=> allowed
       /\ (gate.given # NoUser /\ ~allowed) =>
            gate.did.sends = <<forbidden("Insufficient permissions")>>
       /\ gate.given = NoUser =>
            (Len(gate.did.sends) = 1 /\ gate.did.sends[1].status = 401)
       /\ gate.did.calls + Len(gate.did.sends) = 1

\* an administrator-only route was requested by an ordinary identity
C21_Witness ==
  /\ gate.pc = "authorize"
  /\ gate.roles = {"admin"}
  /\ gate.given \in Attached \ {NoUser}
  /\ gate.given.role = "user"
  /\ gate.did.sends = <<forbidden("Insufficient permissions")>>

\* C22: optionalAuth sends no response and calls next() exactly once for
\* every request; it attaches {id, email, role} exactly when a bearer token
\* is present, verifies, and the lookup finds its identity active; otherwise
\* the request stays without an identity.
C22_Step ==
  (gate' # gate /\ gate'.pc = "optionalAuth") =>
    LET v == verifyAccessToken(gate'.token, now)
        named == /\ ~Falsy(gate'.token)
                 /\ v.ok
                 /\ gate'.lookup = Answers
                 /\ \E u \in users : u.id = v.decoded.id /\ u.isActive
    IN /\ gate'.did.sends = <<>>
       /\ gate'.did.calls = 1
       /\ named => gate'.did.user = Decoded(gate'.token)
       /\ ~named => gate'.did.user = NoUser
       /\ sent' = sent

C22_OptionalAuthNeverRejects == [][C22_Step]_vars

\* optionalAuth let a request through with its identity attached
C22_Witness ==
  /\ gate.pc = "optionalAuth"
  /\ gate.did.calls = 1
  /\ gate.did.user = [id |-> 1, email |-> "a@x.io", role |-> "user"]

\* C23: extractTokenFromHeader returns the second part when the header has
\* exactly one space, with exactly "Bearer" before it, and null for an absent
\* header and for every other value; authenticate answers 401 and does not
\* call next() whenever the extracted token is null or the empty string.
C23_Step ==
  (gate' # gate /\ gate'.pc = "authenticate") =>
    LET header == gate'.header
        spaces == {i \in 1..Len(header) : header[i] = Space}
        twoParts == /\ Cardinality(spaces) = 1
                    /\ Len(header) >= 2
                    /\ header[1] = Word("Bearer")
                    /\ header[2] = Space
        second == IF Len(header) = 2 THEN EmptyString
                  ELSE IF Len(header) = 3 THEN header[3]
                  ELSE Garbage
    IN /\ extractTokenFromHeader(header) = IF twoParts THEN second ELSE NoToken
       /\ gate'.token = extractTokenFromHeader(header)
       /\ Falsy(gate'.token) =>
            /\ gate'.did.calls = 0
            /\ Len(gate'.did.sends) = 1
            /\ gate'.did.sends[1].status = 401

C23_BearerExtraction == [][C23_Step]_vars

\* the header "Bearer " was refused at the gate
C23_Witness ==
  /\ gate.pc = "authenticate"
  /\ gate.header = <<Word("Bearer"), Space>>
  /\ gate.token = EmptyString
  /\ gate.did = Did(0, <<unauthorized("Access token is required")>>, NoUser)

\* C29: for every header, verification result and lookup result, a thrown
\* lookup included, authenticate either calls next() exactly once with
\* {id, email, role} attached and sends nothing, or sends exactly one
\* response, 401 or (for a thrown value that is no Error) 500, and does not
\* call next(); behind router.use(authenticate) no entry handler runs for a
\* request without an attached identity.
C29_Step ==
  (gate' # gate /\ gate'.pc = "authenticate") =>
    LET did == gate'.did
    IN /\ did.calls + Len(did.sends) = 1
       /\ did.calls = 1 => did.user = Decoded(gate'.token)
       /\ did.calls = 0 =>
            /\ did.sends[1].status \in {401, 500}
            /\ did.sends[1].status = 500 <=>
                 (/\ ~Falsy(gate'.token)
                  /\ verifyAccessToken(gate'.token, now).ok
                  /\ gate'.lookup.kind = "other")
       /\ gate'.handlerRuns = did.calls
       /\ gate'.handlerRuns > 0 => gate'.reqUser \in Attached \ {NoUser}
       /\ sent' = sent

C29_GateSingleOutcome == [][C29_Step]_vars

\* the lookup of a verified token threw a value that is no Error
C29_Witness ==
  /\ gate.pc = "authenticate"
  /\ gate.token = Minted
  /\ gate.lookup.kind = "other"
  /\ gate.did = Did(0, <<error("Authentication error", 500)>>, NoUser)

(***************************************************************************)
(* SpecUpdate: updateEntry and deleteEntry requests, interleaving at their *)
(* awaits, on a store that holds entries of two owners.                    *)
(***************************************************************************)
UpdateStore ==
  {[id |-> 1, srNo |-> "1", userId |-> "u1", vehicleNo |-> "MH01",
    nameDetails |-> "T", date |-> 1, gatePassNo |-> Absent, remarks |-> Absent,
    createdAt |-> 0, updatedAt |-> 0],
   [id |-> 2, srNo |-> "2", userId |-> "u1", vehicleNo |-> "MH01",
    nameDetails |-> "T", date |-> 2, gatePassNo |-> Absent, remarks |-> Absent,
    createdAt |-> 0, updatedAt |-> 0],
   [id |-> 3, srNo |-> "3", userId |-> "u2", vehicleNo |-> "MH01",
    nameDetails |-> "T", date |-> 3, gatePassNo |-> Absent, remarks |-> Absent,
    createdAt |-> 0, updatedAt |-> 0]}

UpdateIds == {e.id : e \in UpdateStore}

\* the bodies of the update requests: every field is optional; one body
\* changes the serial number, one names serial number "1", one supplies a
\* date only and one a vehicle number only
NoFields ==
  [srNo |-> Absent, vehicleNo |-> Absent, nameDetails |-> Absent,
   date |-> NoDate, gatePassNo |-> Absent, remarks |-> Absent]
UpdateBodies ==
  {[NoFields EXCEPT !.srNo = "3"],
   [NoFields EXCEPT !.srNo = "1"],
   [NoFields EXCEPT !.date = 5],
   [NoFields EXCEPT !.vehicleNo = "ka02"]}

InitUpdate ==
  /\ entries = UpdateStore
  /\ nextId = Cardinality(UpdateStore) + 1
  /\ now = AccessLifetime
  /\ reqs = [r \in Req |-> Idle]
  /\ sent = NoResponse
  /\ users = {}
  /\ issued = {}
  /\ gate = Idle
  /\ paging = Idle

\* the owner whose requests are followed
Updater == "u1"

NextUpdate ==
  \/ \E r \in Req, id \in UpdateIds, body \in UpdateBodies :
       UpdateEntry_Begin(r, Updater, id, body)
  \/ \E r \in Req : UpdateEntry_Check(r)
  \/ \E r \in Req : UpdateEntry_Write(r)
  \/ \E r \in Req, id \in UpdateIds : DeleteEntry_Begin(r, Updater, id)
  \/ \E r \in Req : DeleteEntry_Write(r)

SpecUpdate == InitUpdate /\ [][NextUpdate]_vars

\* the value a supplied field is stored with, or the stored value kept
Merged(supplied, stored) == IF supplied # Absent THEN supplied ELSE stored

\* C24: on every successful updateEntry by the owner each supplied field
\* takes the supplied value (the vehicle number in upper case), each field
\* not supplied, srNo, vehicleNo, nameDetails and date included, keeps the
\* value stored when the update is written, updatedAt is refreshed and no
\* other entry is modified; an update without srNo is never answered 409.
C24_Step ==
  \A r \in Req :
    LET q == reqs[r]
        stored == {e \in entries : e.id = q.id}
    IN /\ (/\ q.pc = "u_write"
           /\ reqs'[r].pc = "idle"
           /\ stored # {}
           /\ sent'.resp.status = 200) =>
            \E e \in stored : \E d \in sent'.resp.data :
              /\ entries' = (entries \ {e}) \cup {d}
              /\ d.id = e.id /\ d.userId = e.userId /\ d.createdAt = e.createdAt
              /\ d.srNo = Merged(q.body.srNo, e.srNo)
              /\ d.vehicleNo = Merged(ToUpperCase(q.body.vehicleNo), e.vehicleNo)
              /\ d.nameDetails = Merged(q.body.nameDetails, e.nameDetails)
              /\ d.gatePassNo = Merged(q.body.gatePassNo, e.gatePassNo)
              /\ d.remarks = Merged(q.body.remarks, e.remarks)
              /\ d.date = IF q.body.date # NoDate THEN q.body.date ELSE e.date
              /\ d.updatedAt = now
       /\ (/\ q.pc = "u_check"
           /\ q.body.srNo = Absent
           /\ reqs'[r].pc = "idle") => sent'.resp.status # 409

C24_UpdateMerges == [][C24_Step]_vars

\* C25: an updateEntry by owner U that changes srNo to a value a different
\* entry of U holds is answered 409 and leaves every entry unchanged; one
\* that changes srNo to a value only entries of other owners hold, or names
\* the entry's own srNo again, succeeds.
C25_Step ==
  \A r \in Req :
    LET q == reqs[r]
        holders == {e \in entries : /\ e.srNo = q.body.srNo
                                    /\ e.userId = q.user
                                    /\ e.id # q.id}
    IN /\ (q.pc = "u_check" /\ reqs'[r] # q /\ holders # {}) =>
            /\ sent'.resp.status = 409
            /\ entries' = entries
       /\ (q.pc = "u_check" /\ reqs'[r] # q /\ holders = {}) =>
            reqs'[r].pc = "u_write"
       /\ (q.pc = "u_write" /\ reqs'[r] # q /\ q.body.srNo # Absent) =>
            /\ sent'.resp.status = 200
            /\ sent'.resp.success

C25_UpdateConflict == [][C25_Step]_vars

\* C26: in every reachable state the vehicleNo of every stored entry equals
\* its own upper-case form, whether createEntry saved it or updateEntry
\* wrote it.
C26_VehicleNoUppercase ==
  \A e \in entries : e.vehicleNo = ToUpperCase(e.vehicleNo)

\* an entry stands in the store as an update with a lower-case vehicle
\* number wrote it
C26_Witness ==
  /\ sent.op = "update"
  /\ sent.resp.status = 200
  /\ \E d \in sent.resp.data : d \in entries /\ d.vehicleNo = "MH01"

\* C28: whenever updateEntry answers 200 "Entry updated successfully", the
\* response data is the updated entry and that entry stands in the store
\* with the new values when the write is done, also when a deleteEntry of
\* the same id by the same owner runs between the ownership findOne and the
\* findByIdAndUpdate.
C28_Step ==
  \A r \in Req :
    (/\ reqs[r].pc = "u_write"
     /\ reqs'[r].pc = "idle"
     /\ sent'.resp.status = 200
     /\ sent'.resp.message = "Entry updated successfully") =>
      /\ sent'.resp.data # NoData
      /\ \A d \in sent'.resp.data :
           /\ d \in entries'
           /\ d.id = reqs[r].id
           /\ d.userId = reqs[r].user

C28_UpdateSuccessImpliesUpdated == [][C28_Step]_vars

(***************************************************************************)
(* SpecServerless: the exported function of api/index.js.  gate holds the  *)
(* module's state (cachedServer, and how often database.connect() was      *)
(* called, has failed, and a Server was constructed), reqs the invocations *)
(* suspended at await database.connect(), sent the last invocation's end.  *)
(***************************************************************************)
MaxConnects == 3   \* calls of database.connect() followed
NoServer == 0
Methods == {"GET", "POST", "PUT", "DELETE", "OPTIONS"}

InitServerless ==
  /\ entries = {}
  /\ nextId = 1
  /\ now = 0
  /\ reqs = [r \in Req |-> Idle]
  /\ sent = NoResponse
  /\ users = {}
  /\ issued = {}
  /\ gate = [pc |-> "module", cachedServer |-> NoServer, connects |-> 0,
             failed |-> 0, servers |-> 0]
  /\ paging = Idle

\* lines 35-50 and 7-20: the preflight answer, the cached app, or the first
\* await of createServer
Invoke_Begin(r, method) ==
  /\ FreeSlot(r)
  /\ IF method = "OPTIONS"
       THEN /\ sent' = [op |-> "preflight", method |-> method, status |-> 200,
                        app |-> NoServer]
            /\ UNCHANGED <<reqs, gate>>
     ELSE IF gate.cachedServer # NoServer
       THEN /\ sent' = [op |-> "app", method |-> method, status |-> 200,
                        app |-> gate.cachedServer]
            /\ UNCHANGED <<reqs, gate>>
     ELSE /\ gate.connects < MaxConnects
          /\ gate' = [gate EXCEPT !.connects = @ + 1]
          /\ reqs' = [reqs EXCEPT ![r] = [pc |-> "s_connect", method |-> method]]
          /\ UNCHANGED sent
  /\ UNCHANGED <<entries, nextId, now, users, issued, paging>>

\* lines 20-28 and 53: database.connect() resolved; new Server(), the cache
\* is written and the request goes to the new app
Invoke_Connected(r) ==
  /\ reqs[r].pc = "s_connect"
  /\ gate' = [gate EXCEPT !.servers = @ + 1, !.cachedServer = gate.servers + 1]
  /\ sent' = [op |-> "app", method |-> reqs[r].method, status |-> 200,
              app |-> gate.servers + 1]
  /\ reqs' = [reqs EXCEPT ![r] = Idle]
  /\ UNCHANGED <<entries, nextId, now, users, issued, paging>>

\* lines 29-32 and 55-62: database.connect() rejected
Invoke_Failed(r) ==
  /\ reqs[r].pc = "s_connect"
  /\ gate' = [gate EXCEPT !.failed = @ + 1]
  /\ sent' = [op |-> "error", method |-> reqs[r].method, status |-> 500,
              app |-> NoServer]
  /\ reqs' = [reqs EXCEPT ![r] = Idle]
  /\ UNCHANGED <<entries, nextId, now, users, issued, paging>>

NextServerless ==
  \/ \E r \in Req, method \in Methods : Invoke_Begin(r, method)
  \/ \E r \in Req : Invoke_Connected(r)
  \/ \E r \in Req : Invoke_Failed(r)

SpecServerless == InitServerless /\ [][NextServerless]_vars

\* C27: across the invocations of one process, overlapping ones included,
\* database.connect() is called at most once (a call that failed aside), at
\* most one Server is constructed, and every request other than OPTIONS is
\* handled by the one cached app.
C27_InitialisedOnce ==
  /\ gate.connects - gate.failed <= 1
  /\ gate.servers <= 1
  /\ sent.op = "app" => sent.app = 1

(***************************************************************************)
(* SpecSnapshot: getEntries with its two reads as the store serves them,   *)
(* each on its own, among createEntry and deleteEntry requests of the same *)
(* owner.                                                                  *)
(***************************************************************************)
\* lines 53-85: Promise.all issues find and countDocuments; neither has
\* been served yet
GetEntries_Begin(r, U, q) ==
  /\ FreeSlot(r)
  /\ Suspend(r, [pc |-> "l_reads", op |-> "list", user |-> U, query |-> q,
                 finds |-> {}, counts |-> {}])
  /\ UNCHANGED <<entries, nextId, now, users, issued, gate, paging>>

\* line 86: the store serves Entry.find(query).sort(sort).skip(skip).limit(limitNum)
GetEntries_Find(r) ==
  /\ reqs[r].pc = "l_reads"
  /\ reqs[r].finds = {}
  /\ LET d == WithDefaults(reqs[r].query)
     IN \E found \in SortedOrders(Matching(entries, reqs[r].user, d),
                                  d.sortBy, SortDir(d.sortOrder)) :
          Suspend(r, [reqs[r] EXCEPT !.finds = {found}])
  /\ UNCHANGED <<entries, nextId, now, users, issued, gate, paging>>

\* line 87: the store serves Entry.countDocuments(query)
GetEntries_Count(r) ==
  /\ reqs[r].pc = "l_reads"
  /\ reqs[r].counts = {}
  /\ LET d == WithDefaults(reqs[r].query)
         total == Cardinality(Matching(entries, reqs[r].user, d))
     IN Suspend(r, [reqs[r] EXCEPT !.counts = {total}])
  /\ UNCHANGED <<entries, nextId, now, users, issued, gate, paging>>

\* lines 85-92: both promises are resolved and the page is sent
GetEntries_End(r) ==
  /\ reqs[r].pc = "l_reads"
  /\ \E found \in reqs[r].finds, total \in reqs[r].counts :
       /\ reqs' = [reqs EXCEPT ![r] = Idle]
       /\ sent' = [op |-> "list", user |-> reqs[r].user, idClass |-> "none",
                   valid |-> validatePagination(reqs[r].query),
                   query |-> reqs[r].query,
                   resp |-> GetEntriesResponse(reqs[r].user, reqs[r].query,
                                               found, total)]
  /\ UNCHANGED <<entries, nextId, now, users, issued, gate, paging>>

\* the create requests of the owner, with a serial number
SnapshotBodies == {b \in Bodies : b.srNo \in SrNos /\ b.userId = Updater}

NextSnapshot ==
  \/ \E r \in Req, q \in Queries : GetEntries_Begin(r, Updater, q)
  \/ \E r \in Req : GetEntries_Find(r)
  \/ \E r \in Req : GetEntries_Count(r)
  \/ \E r \in Req : GetEntries_End(r)
  \/ \E r \in Req, body \in SnapshotBodies : CreateEntry_Begin(r, Updater, body)
  \/ \E r \in Req : CreateEntry_Save(r)
  \/ \E r \in Req, id \in 1..MaxEntries : DeleteEntry_Begin(r, Updater, id)
  \/ \E r \in Req : DeleteEntry_Write(r)

SpecSnapshot == Init /\ [][NextSnapshot]_vars

\* C30: in every getEntries response the number of items is at most
\* pagination.limit and fits pagination.total:
\* items = min(limit, max(0, total - (page - 1) * limit)), whatever creates
\* and deletes of the same owner run between the two reads.
C30_ListSnapshot ==
  (sent.op = "list" /\ sent.resp.status = 200) =>
    LET pg == sent.resp.pagination
        rest == pg.total.val - (pg.page.val - 1) * pg.limit.val
        left == IF rest > 0 THEN rest ELSE 0
    IN /\ Len(sent.resp.data) <= pg.limit.val
       /\ Len(sent.resp.data) = IF pg.limit.val < left THEN pg.limit.val ELSE left

====
